---- MODULE Spec2Model ----
(***************************************************************************)
(* Request dispatch of the Hue HTTPS instance                              *)
(* (components/hue_https/hue_https_instance.c): the instance's request     *)
(* task, the two request slots guarded by request_handle_mutex, and the    *)
(* event group the task waits on.                                          *)
(***************************************************************************)
EXTENDS Integers, Sequences, FiniteSets, TLC

\* ---------------------------------------------------------------- bounds
MaxRequests == 3      \* requests created and submitted in one behaviour
MaxRetry == 1         \* largest retry_attempts configured in Spec
MaxLog == 300          \* transport calls recorded in one behaviour

\* ------------------------------------------------------ program constants
HUE_HTTPS_EVT_WIFI_CONNECTED_BIT == 1
HUE_HTTPS_EVT_TRIGGER_BIT == 2
HUE_HTTPS_EVT_ABORT_BIT == 4
HUE_HTTPS_EVT_EXIT_BIT == 8
UINT8_MAX == 255      \* largest value of uint8_t attempt_num / retry_attempts

NULL == 0             \* the NULL request handle

Bodies == {"on", "off"}

\* ------------------------------------------------- bit operations of C
RECURSIVE BitAnd(_, _)
BitAnd(a, b) ==
    IF a = 0 \/ b = 0 THEN 0
    ELSE 2 * BitAnd(a \div 2, b \div 2) + (IF a % 2 = 1 /\ b % 2 = 1 THEN 1 ELSE 0)

RECURSIVE BitOr(_, _)
BitOr(a, b) ==
    IF a = 0 THEN b
    ELSE IF b = 0 THEN a
    ELSE 2 * BitOr(a \div 2, b \div 2) + (IF a % 2 = 1 \/ b % 2 = 1 THEN 1 ELSE 0)

RECURSIVE BitXor(_, _)
BitXor(a, b) ==
    IF a = 0 THEN b
    ELSE IF b = 0 THEN a
    ELSE 2 * BitXor(a \div 2, b \div 2) + (IF a % 2 # b % 2 THEN 1 ELSE 0)

\* xEventGroupSetBits / xEventGroupClearBits on a 4-bit event group value
SetBits(evt, b) == BitOr(evt, b)

ClearBits_Kept(evt, b) == evt

ClearBits(evt, b) == evt - BitAnd(evt, b)

HUE_HTTPS_EVT_WAIT_BITS ==
    BitOr(BitOr(HUE_HTTPS_EVT_WIFI_CONNECTED_BIT, HUE_HTTPS_EVT_TRIGGER_BIT),
          HUE_HTTPS_EVT_EXIT_BIT)

\* ------------------------------------------- strings and their formats
\* A C string is the sequence of its characters before the terminating NUL.
HUE_BRIDGE_ID_LENGTH == 16
HUE_BRIDGE_IP_LENGTH == 15
HUE_APPLICATION_KEY_LENGTH == 40
HUE_RESOURCE_ID_LENGTH == 36

DecDigits == {"0", "1", "2", "3", "4", "5", "6", "7", "8", "9"}

LowerHexDigits == DecDigits \cup {"a", "b", "c", "d", "e", "f"}

HexDigits == LowerHexDigits \cup {"A", "B", "C", "D", "E", "F"}

\* isspace
WhiteSpace == {" ", "\t", "\n", "\r", "\f"}

LETTERS ==
    <<"a", "b", "c", "d", "e", "f", "g", "h", "i", "j", "k", "l", "m", "n",
      "o", "p", "q", "r", "s", "t", "u", "v", "w", "x", "y", "z", "A", "B",
      "C", "D", "E", "F", "G", "H", "I", "J", "K", "L", "M", "N", "O", "P",
      "Q", "R", "S", "T", "U", "V", "W", "X", "Y", "Z">>

\* the scanset [-_0-9a-zA-Z] of HUE_APPLICATION_KEY_FORMAT
ApplicationKeyChars ==
    {"-", "_"} \cup DecDigits \cup {LETTERS[i] : i \in DOMAIN LETTERS}

\* sscanf: the input position after the white space that a numeric
\* conversion skips
RECURSIVE SkipSpace(_, _)
SkipSpace(s, p) ==
    IF p <= Len(s) /\ s[p] \in WhiteSpace THEN SkipSpace(s, p + 1) ELSE p

\* sscanf: how many of the next w characters from position p are in set
RECURSIVE Run(_, _, _, _)
Run(s, p, w, set) ==
    IF w > 0 /\ p <= Len(s) /\ s[p] \in set
    THEN 1 + Run(s, p + 1, w - 1, set)
    ELSE 0

\* a directive that does not match ends the scan: %n is not reached
ScanFail == -1

\* sscanf %*<width>u (digits = DecDigits) and %*<width>x (digits = HexDigits,
\* prefix): white space is skipped, then at most width characters are taken:
\* an optional sign, for %x an optional 0x or 0X, then digits, at least one.
ScanInt(s, p, width, digits, prefix) ==
    IF p = ScanFail THEN ScanFail
    ELSE LET q == SkipSpace(s, p)
             sign == IF q <= Len(s) /\ s[q] \in {"+", "-"} THEN 1 ELSE 0
             r == q + sign
             w == width - sign
             pfx == IF /\ prefix
                       /\ sign = 0
                       /\ w >= 2
                       /\ r + 1 <= Len(s)
                       /\ s[r] = "0"
                       /\ s[r + 1] \in {"x", "X"}
                    THEN 2 ELSE 0
             n == Run(s, r + pfx, w - pfx, digits)
         IN  IF n = 0 THEN ScanFail ELSE r + pfx + n

\* sscanf: an ordinary character of the format matches itself only
ScanLit(s, p, c) ==
    IF p # ScanFail /\ p <= Len(s) /\ s[p] = c THEN p + 1 ELSE ScanFail

\* sscanf %*<width>[set]: no white space is skipped, at least one character
ScanSet(s, p, width, set) ==
    IF p = ScanFail THEN ScanFail
    ELSE LET n == Run(s, p, width, set)
         IN  IF n = 0 THEN ScanFail ELSE p + n

\* %n into chars_received, which was initialised to 0
CharsReceived(p) == IF p = ScanFail THEN 0 ELSE p - 1

\* sscanf(bridge_ip, "%*3u.%*3u.%*3u.%*3u%n", &chars_received)
ScanBridgeIp(s) ==
    LET o1 == ScanInt(s, 1, 3, DecDigits, FALSE)
        o2 == ScanInt(s, ScanLit(s, o1, "."), 3, DecDigits, FALSE)
        o3 == ScanInt(s, ScanLit(s, o2, "."), 3, DecDigits, FALSE)
        o4 == ScanInt(s, ScanLit(s, o3, "."), 3, DecDigits, FALSE)
    IN  CharsReceived(o4)

\* sscanf(bridge_id, "%*16x%n", &chars_received)
ScanBridgeId(s) == CharsReceived(ScanInt(s, 1, 16, HexDigits, TRUE))

\* sscanf(app_key, "%*40[-_0-9a-zA-Z]%n", &chars_received)
ScanAppKey(s) == CharsReceived(ScanSet(s, 1, 40, ApplicationKeyChars))

\* sscanf(resource_id, "%*8x-%*4x-%*4x-%*4x-%*12x%n", &chars_received)
ScanResourceId(s) ==
    LET g1 == ScanInt(s, 1, 8, HexDigits, TRUE)
        g2 == ScanInt(s, ScanLit(s, g1, "-"), 4, HexDigits, TRUE)
        g3 == ScanInt(s, ScanLit(s, g2, "-"), 4, HexDigits, TRUE)
        g4 == ScanInt(s, ScanLit(s, g3, "-"), 4, HexDigits, TRUE)
        g5 == ScanInt(s, ScanLit(s, g4, "-"), 12, HexDigits, TRUE)
    IN  CharsReceived(g5)

\* strlen(s) != LENGTH, then the scan must have consumed LENGTH characters
CheckFormat(s, length, chars_received) ==
    IF Len(s) # length THEN "ESP_FAIL"
    ELSE IF chars_received # length THEN "ESP_FAIL"
    ELSE "ESP_OK"

check_bridge_ip(bridge_ip) ==
    CheckFormat(bridge_ip, HUE_BRIDGE_IP_LENGTH, ScanBridgeIp(bridge_ip))

check_bridge_id(bridge_id) ==
    CheckFormat(bridge_id, HUE_BRIDGE_ID_LENGTH, ScanBridgeId(bridge_id))

check_app_key(app_key) ==
    CheckFormat(app_key, HUE_APPLICATION_KEY_LENGTH, ScanAppKey(app_key))

hue_check_resource_id(resource_id) ==
    CheckFormat(resource_id, HUE_RESOURCE_ID_LENGTH, ScanResourceId(resource_id))

\* The formats themselves. A bridge address is a dotted quad of at most 15
\* characters whose four octets are decimal numbers 0..255.
DigitSeq == <<"0", "1", "2", "3", "4", "5", "6", "7", "8", "9">>

DigitValue(c) == (CHOOSE i \in DOMAIN DigitSeq : DigitSeq[i] = c) - 1

RECURSIVE DecValue(_)
DecValue(t) ==
    IF t = <<>> THEN 0
    ELSE 10 * DecValue(SubSeq(t, 1, Len(t) - 1)) + DigitValue(t[Len(t)])

IsOctet(t) ==
    /\ Len(t) \in 1..3
    /\ \A i \in DOMAIN t : t[i] \in DecDigits
    /\ DecValue(t) <= UINT8_MAX

IsBridgeAddress(s) ==
    /\ Len(s) <= HUE_BRIDGE_IP_LENGTH
    /\ LET dots == {i \in DOMAIN s : s[i] = "."}
       IN  /\ Cardinality(dots) = 3
           /\ LET d1 == CHOOSE i \in dots : \A j \in dots : i <= j
                  d3 == CHOOSE i \in dots : \A j \in dots : i >= j
                  d2 == CHOOSE i \in dots : i # d1 /\ i # d3
              IN  /\ IsOctet(SubSeq(s, 1, d1 - 1))
                  /\ IsOctet(SubSeq(s, d1 + 1, d2 - 1))
                  /\ IsOctet(SubSeq(s, d2 + 1, d3 - 1))
                  /\ IsOctet(SubSeq(s, d3 + 1, Len(s)))

\* a bridge identity is 16 lowercase-hex characters
IsBridgeIdentity(s) ==
    /\ Len(s) = HUE_BRIDGE_ID_LENGTH
    /\ \A i \in DOMAIN s : s[i] \in LowerHexDigits

\* a credential is 40 characters over [A-Za-z0-9_-]
IsCredential(s) ==
    /\ Len(s) = HUE_APPLICATION_KEY_LENGTH
    /\ \A i \in DOMAIN s : s[i] \in ApplicationKeyChars

\* a resource id is 36 characters, hex digits in groups of 8-4-4-4-12 with a
\* dash after each of the first four groups
ResourceIdDashes == {9, 14, 19, 24}

IsResourceId(s) ==
    /\ Len(s) = HUE_RESOURCE_ID_LENGTH
    /\ \A i \in DOMAIN s :
         IF i \in ResourceIdDashes THEN s[i] = "-" ELSE s[i] \in HexDigits

\* Strings handed to the checks: well-formed ones, every change of one
\* character of a well-formed one, one character less and one more, and
\* the ones named below.
SAMPLE_BRIDGE_IP ==
    <<"1", "9", "2", ".", "1", "6", "8", ".", "0", "0", "1", ".", "0", "1",
      "0">>

SAMPLE_BRIDGE_ID ==
    <<"0", "0", "1", "7", "8", "8", "f", "f", "f", "e", "2", "a", "4", "b",
      "6", "c">>

SAMPLE_APPLICATION_KEY ==
    <<"a", "B", "3", "-", "d", "E", "5", "_", "g", "H", "7", "i", "J", "9",
      "k", "L", "1", "m", "N", "2", "o", "P", "4", "q", "R", "6", "s", "T",
      "8", "u", "V", "0", "w", "X", "y", "Z", "a", "b", "c", "d">>

SAMPLE_RESOURCE_ID ==
    <<"0", "a", "1", "b", "2", "c", "3", "d", "-", "4", "e", "5", "f", "-",
      "6", "a", "7", "b", "-", "8", "c", "9", "d", "-", "0", "e", "1", "f",
      "2", "a", "3", "b", "4", "c", "5", "d">>

SHORT_BRIDGE_IP ==
    <<"1", "9", "2", ".", "1", "6", "8", ".", "1", ".", "1", "0">>

SHORTEST_BRIDGE_IP ==
    <<"0", ".", "0", ".", "0", ".", "0">>

OCTET_999_BRIDGE_IP ==
    <<"9", "9", "9", ".", "9", "9", "9", ".", "9", "9", "9", ".", "9", "9",
      "9">>

UPPERCASE_BRIDGE_ID ==
    <<"0", "0", "1", "7", "8", "8", "F", "F", "F", "E", "2", "A", "4", "B",
      "6", "C">>

DOUBLE_DASH_RESOURCE_ID ==
    <<"0", "a", "1", "b", "2", "c", "3", "d", "-", "-", "e", "5", "f", "-",
      "6", "a", "7", "b", "-", "8", "c", "9", "d", "-", "0", "e", "1", "f",
      "2", "a", "3", "b", "4", "c", "5", "d">>

CheckChars ==
    {"0", "9", "a", "f", "A", "F", "g", "x", "-", "_", ".", " ", "+"}

Variants(base) ==
    {[base EXCEPT ![i] = c] : i \in DOMAIN base, c \in CheckChars}
        \cup {SubSeq(base, 1, Len(base) - 1)}
        \cup {Append(base, c) : c \in CheckChars}

VARIABLES
    handle_evt,              \* event group value (bits 0..3)
    current_request_handle,  \* request being performed, or NULL
    next_request_handle,     \* request to replace current, or NULL
    request_handle_mutex,    \* "free" or the holder
    retry_attempts,          \* configured number of retries
    pc,                      \* position of hue_https_request_task
    attempt_num,             \* uint8_t attempt_num of hue_https_send_request
    err,                     \* esp_err_t err of hue_https_send_request
    last_outcome,            \* how the last esp_http_client_perform ended
    heap,                    \* request instances whose buffers are allocated
    next_id,                 \* number of requests created so far
    request_body,            \* request_body of every created request
    in_transport,            \* requests inside esp_http_client_perform
    transport_log,           \* every esp_http_client_perform call, in order
    current_log,             \* every request that became current, in order
    burst,                   \* requests submitted since current was last filled
    superseded,              \* requests replaced in next by a later submit
    destroy_ret,             \* what hue_https_destroy_instance last returned
    p_hue_https_handle,      \* the caller's handle: "instance" or "NULL"
    transport_mode,          \* "any", or "fail": every perform is a transport error
    last_submit,             \* where the last submit stored its request
    idle_since_promotion,    \* the last promotion left current empty and no
                             \* other context has touched a flag or a slot since
    config,                  \* *p_hue_https_config given to hue_https_create_instance
    create_ret,              \* what hue_https_create_instance returned
    resources,               \* what of the instance is allocated
    unwound,                 \* the handles free_hue_https_instance deleted
    allocated,               \* what hue_https_create_instance ever allocated
    check_kind,              \* which format check is applied to check_str
    check_str,               \* the string handed to the format check
    check_ret,               \* what the format check returned
    event_group_handle,      \* bits set in the event group of hue_https.c
    caller_pc,               \* position of each caller of hue_smart_scene_https_request
    caller_attempt_num,      \* uint8_t attempt_num of each caller's hue_https_request
    caller_err,              \* esp_err_t err of each caller
    hue_data,                \* the data structure handed to the JSON builder
    assigned,                \* the integers assigned to the bit-fields of hue_data
    json_buffer,             \* the hue_json_buffer_t handed to the JSON builder
    json_ret,                \* what the JSON builder returned
    buff_url,                \* buff_url of the instance, one cell per char
    url_res_path_pos,        \* url_res_path_pos of the instance
    resource_path,           \* resource_path of the request in current
    url_pc,                  \* position of the task with respect to the URL
    url_log,                 \* the URL of every esp_http_client_init, in order
    request_call,            \* the arguments of hue_https_create_light_request
                             \* and what its allocations and its buffer do
    request_handle,          \* the caller's hue_https_request_handle_t
    request_instance,        \* request_body and resource_path of the request
    request_heap,            \* what the call allocated and has not freed
    request_ret              \* what hue_https_create_light_request returned

vars == <<handle_evt, current_request_handle, next_request_handle,
          request_handle_mutex, retry_attempts, pc, attempt_num, err,
          last_outcome, heap, next_id, request_body, in_transport, transport_log, current_log,
          burst, superseded, destroy_ret, p_hue_https_handle, transport_mode,
          last_submit, idle_since_promotion, config, create_ret, resources, unwound, allocated, check_kind,
          check_str, check_ret, event_group_handle, caller_pc,
          caller_attempt_num, caller_err, hue_data, assigned, json_buffer,
          json_ret, buff_url, url_res_path_pos, resource_path, url_pc, url_log,
          request_call, request_handle, request_instance, request_heap,
          request_ret>>

\* the variables of hue_https_create_instance and of the format checks
create_vars ==
    <<config, create_ret, resources, unwound, allocated, check_kind, check_str,
      check_ret>>

\* the variables of the blocking requests of hue_https.c
scene_vars == <<event_group_handle, caller_pc, caller_attempt_num, caller_err>>

\* the variables of the JSON builder
json_vars == <<hue_data, assigned, json_buffer, json_ret>>

\* the variables of the request URL
url_vars == <<buff_url, url_res_path_pos, resource_path, url_pc, url_log>>

\* the variables of hue_https_create_light_request
request_vars ==
    <<request_call, request_handle, request_instance, request_heap, request_ret>>

other_vars == <<scene_vars, json_vars, url_vars, request_vars>>

\* nobody calls the blocking requests
SceneIdle ==
    /\ event_group_handle = {}
    /\ caller_pc = <<>>
    /\ caller_attempt_num = <<>>
    /\ caller_err = <<>>

\* nobody calls the JSON builder
JsonIdle ==
    /\ hue_data = <<>>
    /\ assigned = <<>>
    /\ json_buffer = <<>>
    /\ json_ret = "none"

\* no request: its body and its resource path are NULL
NoRequest == [request_body |-> <<>>, resource_path |-> <<>>]

\* nobody calls hue_https_create_light_request
RequestIdle ==
    /\ request_call = <<>>
    /\ request_handle = "NULL"
    /\ request_instance = NoRequest
    /\ request_heap = {}
    /\ request_ret = "none"

\* the URL buffer is left out
UrlIdle ==
    /\ buff_url = <<>>
    /\ url_res_path_pos = 0
    /\ resource_path = <<>>
    /\ url_pc = "none"
    /\ url_log = <<>>

\* what a complete instance consists of
InstanceResources == {"instance", "handle_evt", "request_handle_mutex", "task_handle"}

\* the handles of an instance that free_hue_https_instance tests
HandleFields == InstanceResources \ {"instance"}

Ids == 1..MaxRequests

\* State after a successful hue_https_create_instance: slots NULL, the event
\* group as xEventGroupCreate leaves it, the task blocked in its wait.
InstanceCreated(retries, mode, ips) ==
    /\ handle_evt = 0
    /\ current_request_handle = NULL
    /\ next_request_handle = NULL
    /\ request_handle_mutex = "free"
    /\ retry_attempts \in retries
    /\ pc = "wait"
    /\ attempt_num = 0
    /\ err = "none"
    /\ last_outcome = "none"
    /\ heap = {}
    /\ next_id = 0
    /\ request_body = [i \in Ids |-> "none"]
    /\ in_transport = {}
    /\ transport_log = <<>>
    /\ current_log = <<>>
    /\ burst = <<>>
    /\ superseded = {}
    /\ destroy_ret = "none"
    /\ p_hue_https_handle = "instance"
    /\ transport_mode = mode
    /\ last_submit = "none"
    /\ idle_since_promotion = FALSE
    /\ \E ip \in ips :
          config = [null |-> {}, bridge_ip |-> ip,
                    bridge_id |-> SAMPLE_BRIDGE_ID,
                    application_key |-> SAMPLE_APPLICATION_KEY,
                    retry_attempts |-> retry_attempts]
    /\ create_ret = "ESP_OK"
    /\ resources = InstanceResources
    /\ unwound = {}
    /\ allocated = InstanceResources
    /\ check_kind = "none"
    /\ check_str = <<>>
    /\ check_ret = "none"

\* the instance alone: no blocking request, no call of the JSON builder, the
\* contents of the URL buffer left out
InitWith(retries, mode) ==
    /\ InstanceCreated(retries, mode, {SAMPLE_BRIDGE_IP})
    /\ SceneIdle
    /\ JsonIdle
    /\ UrlIdle
    /\ RequestIdle

Init == InitWith(0..MaxRetry, "any")

\* ------------------------------------------------------------ the task
\* What esp_http_client_init + esp_http_client_perform can answer.
Outcomes ==
    IF transport_mode = "fail" THEN {"TRANSPORT_ERROR"}
    ELSE {"HTTP_200", "HTTP_OTHER", "TRANSPORT_ERROR", "CLIENT_NULL"}

\* hue_https_request_task after xEventGroupWaitBits returned bits
TaskBranch_IgnoreExit(bits) ==
    IF BitAnd(bits, BitOr(HUE_HTTPS_EVT_WIFI_CONNECTED_BIT, HUE_HTTPS_EVT_TRIGGER_BIT)) = 0
    THEN "wait" ELSE "send_request"

TaskBranch(bits) ==
    IF BitAnd(bits, HUE_HTTPS_EVT_EXIT_BIT) # 0 THEN "deleted"
    ELSE IF BitAnd(bits, BitOr(HUE_HTTPS_EVT_WIFI_CONNECTED_BIT, HUE_HTTPS_EVT_TRIGGER_BIT)) = 0
    THEN "wait"
    ELSE "send_request"

\* xEventGroupWaitBits(handle_evt, WAIT_BITS, pdFALSE, pdFALSE, portMAX_DELAY):
\* returns once any waited bit is set and clears nothing.
TaskWait ==
    /\ pc = "wait"
    /\ BitAnd(handle_evt, HUE_HTTPS_EVT_WAIT_BITS) # 0
    /\ pc' = TaskBranch(handle_evt)
    /\ UNCHANGED <<handle_evt, current_request_handle, next_request_handle,
                   request_handle_mutex, retry_attempts, attempt_num, err, last_outcome, heap,
                   next_id, request_body, in_transport, transport_log,
                   current_log, burst, superseded, destroy_ret,
                   p_hue_https_handle, transport_mode>>
    /\ UNCHANGED <<last_submit, idle_since_promotion, create_vars, other_vars>>

\* hue_https_send_request up to the retry loop. A created request always has
\* a body and a resource path, and url_res_path_pos is within its bounds.
SendRequestEntry ==
    /\ pc = "send_request"
    /\ IF current_request_handle = NULL
       THEN /\ pc' = "wait"
            /\ UNCHANGED attempt_num
       ELSE /\ pc' = "loop"
            /\ attempt_num' = 0
    /\ UNCHANGED <<handle_evt, current_request_handle, next_request_handle,
                   request_handle_mutex, retry_attempts, err, last_outcome, heap,
                   next_id, request_body, in_transport, transport_log,
                   current_log, burst, superseded, destroy_ret,
                   p_hue_https_handle, transport_mode>>
    /\ UNCHANGED <<last_submit, idle_since_promotion, create_vars, other_vars>>

\* while (attempt_num <= retry_attempts)
LoopContinues_Below(n, retries) == n < retries

LoopContinues(n, retries) == n <= retries

LoopCond ==
    /\ pc = "loop"
    /\ pc' = IF LoopContinues(attempt_num, retry_attempts)
             THEN "request_loop" ELSE "promote"
    /\ UNCHANGED <<handle_evt, current_request_handle, next_request_handle,
                   request_handle_mutex, retry_attempts, attempt_num, err, last_outcome, heap,
                   next_id, request_body, in_transport, transport_log,
                   current_log, burst, superseded, destroy_ret,
                   p_hue_https_handle, transport_mode>>
    /\ UNCHANGED <<last_submit, idle_since_promotion, create_vars, other_vars>>

\* The early return of hue_https_request_loop, as the source computes it:
\* (bits ^ CONNECTED) & ABORT & EXIT
RequestLoopGuard(bits) ==
    BitAnd(BitAnd(BitXor(bits, HUE_HTTPS_EVT_WIFI_CONNECTED_BIT),
                  HUE_HTTPS_EVT_ABORT_BIT),
           HUE_HTTPS_EVT_EXIT_BIT) # 0

\* err after esp_http_client_perform and the status check
PerformErr_RetryResponse(outcome) ==
    IF outcome = "HTTP_200" THEN "ESP_OK" ELSE "ESP_ERR_NOT_FINISHED"

PerformErr(outcome) ==
    IF outcome = "HTTP_200" THEN "ESP_OK"
    ELSE IF outcome = "HTTP_OTHER" THEN "ESP_ERR_INVALID_RESPONSE"
    ELSE "ESP_ERR_NOT_FINISHED"

\* the request whose body hue_https_request_loop hands to the client
RequestPerformed_Next(cur, nxt) == IF nxt # NULL THEN nxt ELSE cur

RequestPerformed(cur, nxt) == cur

\* hue_https_request_loop up to the call of esp_http_client_perform.
\* transport_log records the first MaxLog calls.
RequestLoop ==
    /\ pc = "request_loop"
    /\ IF RequestLoopGuard(handle_evt)
       THEN /\ err' = "ESP_FAIL"
            /\ pc' = "promote"
            /\ UNCHANGED <<in_transport, transport_log>>
       ELSE \/ /\ "CLIENT_NULL" \in Outcomes
               /\ err' = "ESP_ERR_INVALID_STATE"
               /\ pc' = "promote"
               /\ UNCHANGED <<in_transport, transport_log>>
            \/ /\ pc' = "perform"
               /\ LET r == RequestPerformed(current_request_handle,
                                            next_request_handle)
                  IN  transport_log' =
                          IF Len(transport_log) < MaxLog
                          THEN Append(transport_log,
                                      [id |-> r, body |-> request_body[r]])
                          ELSE transport_log
               /\ in_transport' = in_transport \cup {Len(transport_log')}
               /\ UNCHANGED err
    /\ UNCHANGED <<handle_evt, current_request_handle, next_request_handle,
                   request_handle_mutex, retry_attempts, attempt_num, heap,
                   last_outcome, next_id, request_body, current_log, burst,
                   superseded, destroy_ret, p_hue_https_handle, transport_mode>>
    /\ UNCHANGED <<last_submit, idle_since_promotion, create_vars, other_vars>>

\* esp_http_client_perform blocks until the call is over: when it returns,
\* call n is no longer in progress
InProgressAfterPerform_Async(calls, n) == calls

InProgressAfterPerform(calls, n) == calls \ {n}

\* esp_http_client_perform returns; the loop breaks unless the request is to
\* be retried, else attempt_num++ (uint8_t)
PerformReturn ==
    /\ pc = "perform"
    /\ \E outcome \in Outcomes \ {"CLIENT_NULL"} :
        /\ err' = PerformErr(outcome)
        /\ last_outcome' = outcome
        /\ IF err' # "ESP_ERR_NOT_FINISHED"
           THEN /\ pc' = "promote"
                /\ UNCHANGED attempt_num
           ELSE /\ pc' = "delay"
                /\ attempt_num' = (attempt_num + 1) % (UINT8_MAX + 1)
    /\ in_transport' = InProgressAfterPerform(in_transport, Len(transport_log))
    /\ UNCHANGED <<handle_evt, current_request_handle, next_request_handle,
                   request_handle_mutex, retry_attempts, heap,
                   next_id, request_body, transport_log, current_log, burst,
                   superseded, destroy_ret, p_hue_https_handle, transport_mode>>
    /\ UNCHANGED <<last_submit, idle_since_promotion, create_vars, other_vars>>

\* vTaskDelay(pdMS_TO_TICKS(1000)) after every failed attempt
Delay ==
    /\ pc = "delay"
    /\ pc' = "loop"
    /\ UNCHANGED <<handle_evt, current_request_handle, next_request_handle,
                   request_handle_mutex, retry_attempts, attempt_num, err, last_outcome, heap,
                   next_id, request_body, in_transport, transport_log,
                   current_log, burst, superseded, destroy_ret,
                   p_hue_https_handle, transport_mode>>
    /\ UNCHANGED <<last_submit, idle_since_promotion, create_vars, other_vars>>

\* xSemaphoreTake(request_handle_mutex, portMAX_DELAY)
PromoteTake ==
    /\ pc = "promote"
    /\ request_handle_mutex = "free"
    /\ request_handle_mutex' = "task"
    /\ pc' = "promote_locked"
    /\ UNCHANGED <<handle_evt, current_request_handle, next_request_handle,
                   retry_attempts, attempt_num, err, last_outcome, heap,
                   next_id, request_body, in_transport, transport_log,
                   current_log, burst, superseded, destroy_ret,
                   p_hue_https_handle, transport_mode>>
    /\ UNCHANGED <<last_submit, idle_since_promotion, create_vars, other_vars>>

\* The slots after the move under the mutex
PromotedCurrent_KeepCurrent(cur, nxt) == IF nxt = NULL THEN NULL ELSE cur

PromotedCurrent(cur, nxt) == nxt

\* xSemaphoreGive(request_handle_mutex)
MutexAfterGive_Kept(holder) == holder

MutexAfterGive(holder) == "free"

\* Move next to current, set the trigger bit if a request was pending, clear
\* the abort bit, give the mutex. The request that was current is not freed.
\* hue_https_send_request returns: its locals attempt_num and err are gone.
PromoteMove ==
    /\ pc = "promote_locked"
    /\ current_request_handle' =
           PromotedCurrent(current_request_handle, next_request_handle)
    /\ next_request_handle' = NULL
    /\ handle_evt' = ClearBits(
           IF current_request_handle' # NULL
           THEN SetBits(handle_evt, HUE_HTTPS_EVT_TRIGGER_BIT) ELSE handle_evt,
           HUE_HTTPS_EVT_ABORT_BIT)
    /\ current_log' = IF current_request_handle' # NULL
                      THEN Append(current_log, current_request_handle')
                      ELSE current_log
    /\ burst' = <<>>
    /\ request_handle_mutex' = MutexAfterGive(request_handle_mutex)
    /\ pc' = "wait"
    /\ attempt_num' = 0
    /\ err' = "none"
    /\ last_outcome' = "none"
    /\ idle_since_promotion' = (current_request_handle' = NULL)
    /\ UNCHANGED <<retry_attempts, heap, next_id,
                   request_body, in_transport, transport_log, superseded,
                   destroy_ret, p_hue_https_handle, transport_mode>>
    /\ UNCHANGED <<last_submit, create_vars, other_vars>>

\* ------------------------------------------------------- the producers
\* submit: create a request and hand it to the instance under the mutex.
\* current empty: it becomes current and the trigger bit is set; next
\* occupied: the request held in next is destroyed and replaced; else it is
\* stored in next.
SubmitToCurrent_Always(cur) == TRUE

SubmitToCurrent(cur) == cur = NULL

Submit ==
    /\ next_id < MaxRequests
    /\ request_handle_mutex = "free"
    /\ \E b \in Bodies :
        LET id == next_id + 1 IN
        /\ next_id' = id
        /\ request_body' = [request_body EXCEPT ![id] = b]
        /\ IF SubmitToCurrent(current_request_handle)
           THEN /\ current_request_handle' = id
                /\ handle_evt' = SetBits(handle_evt, HUE_HTTPS_EVT_TRIGGER_BIT)
                /\ current_log' = Append(current_log, id)
                /\ heap' = heap \cup {id}
                /\ burst' = <<>>
                /\ last_submit' = "current"
                /\ UNCHANGED <<next_request_handle, superseded>>
           ELSE /\ next_request_handle' = id
                /\ heap' = (heap \ {next_request_handle}) \cup {id}
                /\ superseded' = IF next_request_handle = NULL THEN superseded
                                 ELSE superseded \cup {next_request_handle}
                /\ burst' = Append(burst, id)
                /\ last_submit' = "next"
                /\ UNCHANGED <<current_request_handle, handle_evt, current_log>>
    /\ UNCHANGED <<request_handle_mutex, retry_attempts, pc, attempt_num, err, last_outcome,
                   in_transport, transport_log, destroy_ret,
                   p_hue_https_handle, transport_mode>>
    /\ idle_since_promotion' = FALSE
    /\ UNCHANGED <<create_vars, other_vars>>

\* report_connected / report_disconnected, and the raising of Abort and Exit
SignalBits(b, set) ==
    /\ handle_evt' = IF set THEN SetBits(handle_evt, b) ELSE ClearBits(handle_evt, b)
    /\ handle_evt' # handle_evt
    /\ idle_since_promotion' = FALSE
    /\ UNCHANGED <<current_request_handle, next_request_handle,
                   request_handle_mutex, retry_attempts, pc, attempt_num, err, last_outcome,
                   heap, next_id, request_body, in_transport, transport_log,
                   current_log, burst, superseded, destroy_ret,
                   p_hue_https_handle, transport_mode>>
    /\ UNCHANGED <<last_submit, create_vars, other_vars>>

ReportConnected == SignalBits(HUE_HTTPS_EVT_WIFI_CONNECTED_BIT, TRUE)

ReportDisconnected == SignalBits(HUE_HTTPS_EVT_WIFI_CONNECTED_BIT, FALSE)

SignalAbort == SignalBits(HUE_HTTPS_EVT_ABORT_BIT, TRUE)

SignalExit == SignalBits(HUE_HTTPS_EVT_EXIT_BIT, TRUE)

\* hue_https_destroy_instance: returns ESP_ERR_NOT_FINISHED and does nothing
hue_https_destroy_instance ==
    /\ p_hue_https_handle = "instance"
    /\ destroy_ret' = "ESP_ERR_NOT_FINISHED"
    /\ destroy_ret' # destroy_ret
    /\ UNCHANGED <<handle_evt, current_request_handle, next_request_handle,
                   request_handle_mutex, retry_attempts, pc, attempt_num, err, last_outcome,
                   heap, next_id, request_body, in_transport, transport_log,
                   current_log, burst, superseded, p_hue_https_handle,
                   transport_mode>>
    /\ UNCHANGED <<last_submit, idle_since_promotion, create_vars, other_vars>>

Next ==
    \/ TaskWait
    \/ SendRequestEntry
    \/ LoopCond
    \/ RequestLoop
    \/ PerformReturn
    \/ Delay
    \/ PromoteTake
    \/ PromoteMove
    \/ Submit
    \/ ReportConnected
    \/ ReportDisconnected
    \/ SignalAbort
    \/ SignalExit

Spec == Init /\ [][Next]_vars

\* The same instance with a caller that also calls hue_https_destroy_instance
NextDestroy ==
    \/ Next
    \/ hue_https_destroy_instance

SpecDestroy == Init /\ [][NextDestroy]_vars

\* The retry loop alone, over the whole range of the 8-bit retry_attempts,
\* against a transport that fails every call with a transport error.
RetryLimits == {0, 1, UINT8_MAX}

InitRetry == InitWith(RetryLimits, "fail")

NextRetry ==
    \/ TaskWait
    \/ SendRequestEntry
    \/ LoopCond
    \/ RequestLoop
    \/ PerformReturn
    \/ Delay
    \/ PromoteTake
    \/ PromoteMove
    \/ Submit
    \/ ReportConnected

SpecRetry == InitRetry /\ [][NextRetry]_vars

\* The same under fair scheduling of the task: hue_https_request_task has
\* the priority configMAX_PRIORITIES - 5 and every blocking call it makes
\* (esp_http_client_perform, vTaskDelay, xSemaphoreTake) returns.
TaskFairness ==
    /\ WF_vars(TaskWait)
    /\ WF_vars(SendRequestEntry)
    /\ WF_vars(LoopCond)
    /\ WF_vars(RequestLoop)
    /\ WF_vars(PerformReturn)
    /\ WF_vars(Delay)
    /\ WF_vars(PromoteTake)
    /\ WF_vars(PromoteMove)

SpecLive == InitRetry /\ [][NextRetry]_vars /\ TaskFairness

\* The same with another context that raises Exit
NextExit ==
    \/ NextRetry
    \/ SignalExit

SpecExit == InitRetry /\ [][NextExit]_vars /\ TaskFairness

\* ------------------------------------------------ creating an instance
\* malloc does not clear the memory it returns: a pointer field of the new
\* instance holds NULL or anything else until it is assigned
MallocGarbage == {NULL, 1}

\* Before hue_https_create_instance: no instance, no task
NoInstance ==
    /\ handle_evt = 0
    /\ current_request_handle = NULL
    /\ next_request_handle = NULL
    /\ request_handle_mutex = "free"
    /\ retry_attempts = 0
    /\ pc = "none"
    /\ attempt_num = 0
    /\ err = "none"
    /\ last_outcome = "none"
    /\ heap = {}
    /\ next_id = 0
    /\ request_body = [i \in Ids |-> "none"]
    /\ in_transport = {}
    /\ transport_log = <<>>
    /\ current_log = <<>>
    /\ burst = <<>>
    /\ superseded = {}
    /\ destroy_ret = "none"
    /\ transport_mode = "any"
    /\ last_submit = "none"
    /\ idle_since_promotion = FALSE

\* a bridge address, a bridge id and an application key that fail their checks
BAD_BRIDGE_IP == [SAMPLE_BRIDGE_IP EXCEPT ![4] = "x"]

BAD_BRIDGE_ID == [SAMPLE_BRIDGE_ID EXCEPT ![16] = "g"]

BAD_APPLICATION_KEY == [SAMPLE_APPLICATION_KEY EXCEPT ![1] = "+"]

\* The arguments of hue_https_create_instance: which pointers are NULL, and
\* what the strings of the config point to
Configs ==
    [null : {{}, {"p_hue_https_handle"}, {"p_hue_https_config"}, {"bridge_ip"},
             {"bridge_id"}, {"application_key"}},
     bridge_ip : {SAMPLE_BRIDGE_IP, SHORT_BRIDGE_IP, BAD_BRIDGE_IP},
     bridge_id : {SAMPLE_BRIDGE_ID, BAD_BRIDGE_ID},
     application_key : {SAMPLE_APPLICATION_KEY, BAD_APPLICATION_KEY},
     retry_attempts : 0..MaxRetry]

InitCreate ==
    /\ NoInstance
    /\ SceneIdle
    /\ JsonIdle
    /\ UrlIdle
    /\ RequestIdle
    /\ config \in Configs
    /\ p_hue_https_handle \in {"NULL", "instance"}
    /\ create_ret = "none"
    /\ resources = {}
    /\ unwound = {}
    /\ allocated = {}
    /\ check_kind = "none"
    /\ check_str = <<>>
    /\ check_ret = "none"

\* The NULL checks of hue_https_create_instance, the handle already created
\* included
NullArgs(cfg, handle) ==
    \/ "p_hue_https_handle" \in cfg.null
    \/ handle # "NULL"
    \/ "p_hue_https_config" \in cfg.null
    \/ "bridge_ip" \in cfg.null
    \/ "bridge_id" \in cfg.null
    \/ "application_key" \in cfg.null

\* "Verify that all config strings are in specified format before
\* continuing": the three checks made before alloc_hue_https_instance
ConfigStringsOk_NoBridgeIdCheck(cfg) ==
    /\ check_bridge_ip(cfg.bridge_ip) = "ESP_OK"
    /\ check_app_key(cfg.application_key) = "ESP_OK"

ConfigStringsOk(cfg) ==
    /\ check_bridge_ip(cfg.bridge_ip) = "ESP_OK"
    /\ check_bridge_id(cfg.bridge_id) = "ESP_OK"
    /\ check_app_key(cfg.application_key) = "ESP_OK"

\* what hue_https_create_instance returns for a handle or a string that is
\* NULL, and for a string that fails its check
CreateRetNull == "ESP_ERR_INVALID_ARG"

CreateRetInvalid == "ESP_ERR_INVALID_ARG"

\* fill_bridge_url_base: the redundant check, then snprintf of
\* "https://" bridge_ip "/clip/v2/resource/" and the test of its length
HUE_RESOURCE_PATH_LENGTH == 18

fill_bridge_url_base(bridge_ip) ==
    IF check_bridge_ip(bridge_ip) # "ESP_OK" THEN "ESP_ERR_INVALID_ARG"
    ELSE LET n == 8 + Len(bridge_ip) + HUE_RESOURCE_PATH_LENGTH
         IN  IF n < 8 + 7 + HUE_RESOURCE_PATH_LENGTH
                \/ n > 8 + 15 + HUE_RESOURCE_PATH_LENGTH
             THEN "ESP_ERR_INVALID_SIZE"
             ELSE "ESP_OK"

\* fill_bridge_id and fill_app_key: the redundant check, strncpy of LENGTH
\* characters into the instance, then the check of the copy. strncpy writes
\* no NUL after the characters and malloc left the byte behind them as it
\* was: the copy ends there only if that byte happens to be 0.
FillCopied(check_src, terminated) ==
    IF check_src # "ESP_OK" THEN "ESP_ERR_INVALID_ARG"
    ELSE IF ~terminated THEN "ESP_ERR_INVALID_RESPONSE"
    ELSE "ESP_OK"

\* the pointers that alloc_hue_https_instance sets to NULL
InstanceSlot_Uninitialised(garbage) == garbage

InstanceSlot(garbage) == NULL

\* the failures of hue_https_create_instance that its arguments do not decide
CreateFailures ==
    {"none", "malloc", "bridge_id_nul", "app_key_nul", "xEventGroupCreate",
     "xSemaphoreCreateMutex", "xTaskCreate"}

\* free_hue_https_instance: each of task_handle, handle_evt and
\* request_handle_mutex that is not NULL is deleted. A handle that was made
\* is not NULL; one of unassigned, which malloc left as it was, is deleted
\* when its bytes happen not to be 0.
HandlesDeleted(made, unassigned) ==
    {(made \ {"instance"}) \cup g : g \in SUBSET unassigned}

\* hue_https_create_instance failed with nothing left allocated; deleting
\* what an unassigned handle holds may as well crash.
CreateFails(ret, made, unassigned) ==
    /\ unwound' \in HandlesDeleted(made, unassigned)
    /\ create_ret' \in (IF unwound' \subseteq made THEN {ret} ELSE {ret, "CRASH"})
    /\ allocated' = made
    /\ resources' = {}
    /\ UNCHANGED <<handle_evt, current_request_handle, next_request_handle,
                   request_handle_mutex, retry_attempts, pc,
                   p_hue_https_handle>>

hue_https_create_instance ==
    /\ create_ret = "none"
    /\ \E fail \in CreateFailures, garbage \in MallocGarbage :
        IF NullArgs(config, p_hue_https_handle)
        THEN CreateFails(CreateRetNull, {}, {})
        ELSE IF ~ConfigStringsOk(config)
        THEN CreateFails(CreateRetInvalid, {}, {})
        ELSE IF fail = "malloc"
        THEN CreateFails("ESP_ERR_NO_MEM", {}, {})
        ELSE IF fill_bridge_url_base(config.bridge_ip) # "ESP_OK"
        THEN CreateFails(fill_bridge_url_base(config.bridge_ip), {"instance"},
                         HandleFields)
        ELSE IF FillCopied(check_bridge_id(config.bridge_id),
                           fail # "bridge_id_nul") # "ESP_OK"
        THEN CreateFails(FillCopied(check_bridge_id(config.bridge_id),
                                    fail # "bridge_id_nul"), {"instance"},
                         HandleFields)
        ELSE IF FillCopied(check_app_key(config.application_key),
                           fail # "app_key_nul") # "ESP_OK"
        THEN CreateFails(FillCopied(check_app_key(config.application_key),
                                    fail # "app_key_nul"), {"instance"},
                         HandleFields)
        ELSE IF fail = "xEventGroupCreate"
        THEN CreateFails("ESP_ERR_NO_MEM", {"instance"},
                         {"task_handle", "request_handle_mutex"})
        ELSE IF fail = "xSemaphoreCreateMutex"
        THEN CreateFails("ESP_ERR_NO_MEM", {"instance", "handle_evt"},
                         {"task_handle"})
        ELSE IF fail = "xTaskCreate"
        THEN CreateFails("ESP_ERR_NO_MEM",
                         {"instance", "handle_evt", "request_handle_mutex"}, {})
        ELSE /\ create_ret' = "ESP_OK"
             /\ allocated' = InstanceResources
             /\ resources' = InstanceResources
             /\ unwound' = {}
             /\ p_hue_https_handle' = "instance"
             /\ handle_evt' = 0
             /\ request_handle_mutex' = "free"
             /\ current_request_handle' = InstanceSlot(garbage)
             /\ next_request_handle' = InstanceSlot(garbage)
             /\ retry_attempts' = config.retry_attempts
             /\ pc' = "wait"
    /\ UNCHANGED <<attempt_num, err, last_outcome, heap, next_id, request_body,
                   in_transport, transport_log, current_log, burst, superseded,
                   destroy_ret, transport_mode, last_submit,
                   idle_since_promotion, config,
                   check_kind, check_str, check_ret, other_vars>>

NextCreate == hue_https_create_instance

SpecCreate == InitCreate /\ [][NextCreate]_vars

\* ------------------------------------------------- the format checks
CheckKinds == {"bridge_ip", "bridge_id", "app_key", "resource_id"}

CheckStrings(kind) ==
    IF kind = "bridge_ip"
    THEN Variants(SAMPLE_BRIDGE_IP)
             \cup {SAMPLE_BRIDGE_IP, SHORT_BRIDGE_IP, SHORTEST_BRIDGE_IP,
                   OCTET_999_BRIDGE_IP}
    ELSE IF kind = "bridge_id"
    THEN Variants(SAMPLE_BRIDGE_ID) \cup {SAMPLE_BRIDGE_ID, UPPERCASE_BRIDGE_ID}
    ELSE IF kind = "app_key"
    THEN Variants(SAMPLE_APPLICATION_KEY) \cup {SAMPLE_APPLICATION_KEY}
    ELSE Variants(SAMPLE_RESOURCE_ID)
             \cup {SAMPLE_RESOURCE_ID, DOUBLE_DASH_RESOURCE_ID}

InitCheck ==
    /\ NoInstance
    /\ SceneIdle
    /\ JsonIdle
    /\ UrlIdle
    /\ RequestIdle
    /\ p_hue_https_handle = "NULL"
    /\ config = [null |-> {}, bridge_ip |-> SAMPLE_BRIDGE_IP,
                 bridge_id |-> SAMPLE_BRIDGE_ID,
                 application_key |-> SAMPLE_APPLICATION_KEY,
                 retry_attempts |-> 0]
    /\ create_ret = "none"
    /\ resources = {}
    /\ unwound = {}
    /\ allocated = {}
    /\ check_kind \in CheckKinds
    /\ check_str \in CheckStrings(check_kind)
    /\ check_ret = "none"

\* one call of a check on check_str
Check(kind, ret) ==
    /\ check_kind = kind
    /\ check_ret = "none"
    /\ check_ret' = ret
    /\ UNCHANGED <<handle_evt, current_request_handle, next_request_handle,
                   request_handle_mutex, retry_attempts, pc, attempt_num, err,
                   last_outcome, heap, next_id, request_body, in_transport,
                   transport_log, current_log, burst, superseded, destroy_ret,
                   p_hue_https_handle, transport_mode, last_submit,
                   idle_since_promotion, config, create_ret, resources, unwound,
                   allocated, check_kind, check_str,
                   other_vars>>

CheckBridgeIp == Check("bridge_ip", check_bridge_ip(check_str))

CheckBridgeId == Check("bridge_id", check_bridge_id(check_str))

CheckAppKey == Check("app_key", check_app_key(check_str))

CheckResourceId == Check("resource_id", hue_check_resource_id(check_str))

NextCheck ==
    \/ CheckBridgeIp
    \/ CheckBridgeId
    \/ CheckAppKey
    \/ CheckResourceId

SpecCheck == InitCheck /\ [][NextCheck]_vars

\* ------------------------------------- the blocking requests of hue_https.c
\* tasks that call hue_smart_scene_https_request
MaxCallers == 2

Callers == 1..MaxCallers

\* event_group_handle of hue_https.c has no instance: it is one static group
\* shared by every caller. Its bits are kept by name.
SceneBits == {"WIFI_CONNECTED", "LOCK", "ABORT"}

\* what hue_smart_scene_data_to_json can return to the caller
SceneJsonRets == {"ESP_OK", "ESP_ERR_INVALID_ARG"}

InitScene ==
    /\ NoInstance
    /\ p_hue_https_handle = "NULL"
    /\ config \in [null : {{}}, bridge_ip : {SAMPLE_BRIDGE_IP},
                   bridge_id : {SAMPLE_BRIDGE_ID},
                   application_key : {SAMPLE_APPLICATION_KEY},
                   retry_attempts : 0..MaxRetry]
    /\ create_ret = "none"
    /\ resources = {}
    /\ unwound = {}
    /\ allocated = {}
    /\ check_kind = "none"
    /\ check_str = <<>>
    /\ check_ret = "none"
    /\ event_group_handle = {}
    /\ caller_pc = [c \in Callers |-> "idle"]
    /\ caller_attempt_num = [c \in Callers |-> 0]
    /\ caller_err = [c \in Callers |-> "none"]
    /\ JsonIdle
    /\ UrlIdle
    /\ RequestIdle

\* what a step of a caller leaves alone
SceneFrame ==
    UNCHANGED <<handle_evt, current_request_handle, next_request_handle,
                request_handle_mutex, retry_attempts, pc, attempt_num, err,
                last_outcome, heap, next_id, request_body, in_transport,
                transport_log, current_log, burst, superseded, destroy_ret,
                p_hue_https_handle, transport_mode, last_submit,
                idle_since_promotion, create_vars,
                json_vars, url_vars, request_vars>>

\* the caller returns ret
SceneReturn(c, ret) ==
    /\ caller_pc' = [caller_pc EXCEPT ![c] = "idle"]
    /\ caller_err' = [caller_err EXCEPT ![c] = ret]

\* hue_smart_scene_https_request up to the test of the Lock bit
SceneGetBits(c) ==
    /\ caller_pc[c] = "idle"
    /\ caller_pc' = [caller_pc EXCEPT ![c] =
                        IF "LOCK" \in event_group_handle
                        THEN "set_abort" ELSE "set_lock"]
    /\ caller_err' = [caller_err EXCEPT ![c] = "ESP_OK"]
    /\ UNCHANGED <<event_group_handle, caller_attempt_num>>
    /\ SceneFrame

\* the Lock bit was set: raise Abort and return
SceneSetAbort(c) ==
    /\ caller_pc[c] = "set_abort"
    /\ event_group_handle' = event_group_handle \cup {"ABORT"}
    /\ SceneReturn(c, "ESP_ERR_INVALID_STATE")
    /\ UNCHANGED caller_attempt_num
    /\ SceneFrame

\* take the Lock bit and build the JSON
SceneSetLock(c) ==
    /\ caller_pc[c] = "set_lock"
    /\ event_group_handle' = event_group_handle \cup {"LOCK"}
    /\ \E ret \in SceneJsonRets :
        /\ caller_err' = [caller_err EXCEPT ![c] = ret]
        /\ caller_pc' = [caller_pc EXCEPT ![c] =
                            IF ret = "ESP_OK" THEN "wait_bits" ELSE "clear_lock"]
    /\ UNCHANGED caller_attempt_num
    /\ SceneFrame

\* xEventGroupWaitBits on the Connected bit returns: with the bit, and
\* hue_https_request starts, or without it when the timeout ran out
SceneWaitBits(c) ==
    /\ caller_pc[c] = "wait_bits"
    /\ IF "WIFI_CONNECTED" \in event_group_handle
       THEN \E null_arg \in BOOLEAN :
              IF null_arg
              THEN /\ caller_err' = [caller_err EXCEPT ![c] = "ESP_ERR_INVALID_ARG"]
                   /\ caller_pc' = [caller_pc EXCEPT ![c] = "clear_lock"]
                   /\ UNCHANGED caller_attempt_num
              ELSE /\ caller_err' = [caller_err EXCEPT ![c] = "ESP_FAIL"]
                   /\ caller_pc' = [caller_pc EXCEPT ![c] = "request"]
                   /\ caller_attempt_num' = [caller_attempt_num EXCEPT ![c] = 0]
       ELSE /\ caller_err' = [caller_err EXCEPT ![c] = "ESP_ERR_WIFI_NOT_CONNECT"]
            /\ caller_pc' = [caller_pc EXCEPT ![c] = "clear_lock"]
            /\ UNCHANGED caller_attempt_num
    /\ UNCHANGED event_group_handle
    /\ SceneFrame

\* whether hue_https_request starts another attempt
SceneLoopContinues(n, retries, bits) == n <= retries

\* the head of the retry loop of hue_https_request and esp_http_client_init
SceneLoopCond(c) ==
    /\ caller_pc[c] = "request"
    /\ IF SceneLoopContinues(caller_attempt_num[c], config.retry_attempts,
                             event_group_handle)
       THEN \E client \in {"client", "NULL"} :
              IF client = "NULL"
              THEN /\ caller_err' = [caller_err EXCEPT ![c] = "ESP_ERR_INVALID_RESPONSE"]
                   /\ caller_pc' = [caller_pc EXCEPT ![c] = "clear_lock"]
              ELSE /\ caller_pc' = [caller_pc EXCEPT ![c] = "perform"]
                   /\ UNCHANGED caller_err
       ELSE /\ caller_err' = [caller_err EXCEPT ![c] = "ESP_FAIL"]
            /\ caller_pc' = [caller_pc EXCEPT ![c] = "clear_lock"]
    /\ UNCHANGED <<event_group_handle, caller_attempt_num>>
    /\ SceneFrame

\* esp_http_client_perform returns
ScenePerformReturn(c) ==
    /\ caller_pc[c] = "perform"
    /\ \E outcome \in Outcomes \ {"CLIENT_NULL"} :
        IF outcome = "HTTP_200"
        THEN /\ caller_err' = [caller_err EXCEPT ![c] = "ESP_OK"]
             /\ caller_pc' = [caller_pc EXCEPT ![c] = "clear_lock"]
             /\ UNCHANGED caller_attempt_num
        ELSE IF outcome = "HTTP_OTHER"
        THEN /\ caller_err' = [caller_err EXCEPT ![c] = "ESP_ERR_INVALID_RESPONSE"]
             /\ caller_pc' = [caller_pc EXCEPT ![c] = "clear_lock"]
             /\ UNCHANGED caller_attempt_num
        ELSE /\ caller_err' = [caller_err EXCEPT ![c] = "TRANSPORT_ERROR"]
             /\ caller_pc' = [caller_pc EXCEPT ![c] = "delay"]
             /\ caller_attempt_num' =
                    [caller_attempt_num EXCEPT ![c] = (@ + 1) % (UINT8_MAX + 1)]
    /\ UNCHANGED event_group_handle
    /\ SceneFrame

\* vTaskDelay of hue_https_request
SceneDelay(c) ==
    /\ caller_pc[c] = "delay"
    /\ caller_pc' = [caller_pc EXCEPT ![c] = "request"]
    /\ UNCHANGED <<event_group_handle, caller_attempt_num, caller_err>>
    /\ SceneFrame

\* the Lock bit is given back and the call returns err
SceneClearLock(c) ==
    /\ caller_pc[c] = "clear_lock"
    /\ event_group_handle' = event_group_handle \ {"LOCK"}
    /\ caller_pc' = [caller_pc EXCEPT ![c] = "idle"]
    /\ UNCHANGED <<caller_attempt_num, caller_err>>
    /\ SceneFrame

\* hue_https_report_wifi_connected, as the comment of
\* hue_smart_scene_https_request names it
hue_https_report_wifi_connected ==
    /\ "WIFI_CONNECTED" \notin event_group_handle
    /\ event_group_handle' = event_group_handle \cup {"WIFI_CONNECTED"}
    /\ UNCHANGED <<caller_pc, caller_attempt_num, caller_err>>
    /\ SceneFrame

NextScene ==
    \/ \E c \in Callers : SceneGetBits(c)
    \/ \E c \in Callers : SceneSetAbort(c)
    \/ \E c \in Callers : SceneSetLock(c)
    \/ \E c \in Callers : SceneWaitBits(c)
    \/ \E c \in Callers : SceneLoopCond(c)
    \/ \E c \in Callers : ScenePerformReturn(c)
    \/ \E c \in Callers : SceneDelay(c)
    \/ \E c \in Callers : SceneClearLock(c)
    \/ hue_https_report_wifi_connected

SpecScene == InitScene /\ [][NextScene]_vars

\* ------------------------------------------------------ the JSON builder

HUE_BOOL_STR(x) ==
    IF x THEN <<"t", "r", "u", "e">> ELSE <<"f", "a", "l", "s", "e">>

\* the format strings of hue_light_data_to_json, each cut at its conversion
FMT_ON ==
    <<"{", "\"", "o", "n", "\"", ":", "{", "\"", "o", "n", "\"", ":">>

FMT_DIMMING ==
    <<",", "\"", "d", "i", "m", "m", "i", "n", "g", "\"", ":", "{", "\"",
      "b", "r", "i", "g", "h", "t", "n", "e", "s", "s", "\"", ":">>

FMT_DIMMING_UP ==
    <<",", "\"", "d", "i", "m", "m", "i", "n", "g", "_", "d", "e", "l", "t",
      "a", "\"", ":", "{", "\"", "a", "c", "t", "i", "o", "n", "\"", ":",
      "\"", "u", "p", "\"", ",", "\"", "b", "r", "i", "g", "h", "t", "n",
      "e", "s", "s", "_", "d", "e", "l", "t", "a", "\"", ":">>

FMT_DIMMING_DOWN ==
    <<",", "\"", "d", "i", "m", "m", "i", "n", "g", "_", "d", "e", "l", "t",
      "a", "\"", ":", "{", "\"", "a", "c", "t", "i", "o", "n", "\"", ":",
      "\"", "d", "o", "w", "n", "\"", ",", "\"", "b", "r", "i", "g", "h",
      "t", "n", "e", "s", "s", "_", "d", "e", "l", "t", "a", "\"", ":">>

FMT_COLOR_TEMP ==
    <<",", "\"", "c", "o", "l", "o", "r", "_", "t", "e", "m", "p", "e", "r",
      "a", "t", "u", "r", "e", "\"", ":", "{", "\"", "m", "i", "r", "e", "k",
      "\"", ":">>

FMT_COLOR_TEMP_UP ==
    <<",", "\"", "c", "o", "l", "o", "r", "_", "t", "e", "m", "p", "e", "r",
      "a", "t", "u", "r", "e", "_", "d", "e", "l", "t", "a", "\"", ":", "{",
      "\"", "a", "c", "t", "i", "o", "n", "\"", ":", "\"", "u", "p", "\"",
      ",", "\"", "m", "i", "r", "e", "k", "_", "d", "e", "l", "t", "a", "\"",
      ":">>

FMT_COLOR_TEMP_DOWN ==
    <<",", "\"", "c", "o", "l", "o", "r", "_", "t", "e", "m", "p", "e", "r",
      "a", "t", "u", "r", "e", "_", "d", "e", "l", "t", "a", "\"", ":", "{",
      "\"", "a", "c", "t", "i", "o", "n", "\"", ":", "\"", "d", "o", "w",
      "n", "\"", ",", "\"", "m", "i", "r", "e", "k", "_", "d", "e", "l", "t",
      "a", "\"", ":">>

FMT_COLOR_X ==
    <<",", "\"", "c", "o", "l", "o", "r", "\"", ":", "{", "\"", "x", "y",
      "\"", ":", "{", "\"", "x", "\"", ":">>

FMT_CLOSE ==
    <<"}">>

\* the format string of hue_smart_scene_data_to_json, cut at its conversion
FMT_RECALL ==
    <<"{", "\"", "r", "e", "c", "a", "l", "l", "\"", ":", "{", "\"", "a",
      "c", "t", "i", "o", "n", "\"", ":">>

HUE_JSON_BUFFER_SIZE == 256

HUE_MIN_B_SET == 1

HUE_MAX_B_SET == 100

HUE_MIN_B_ADD == 0

HUE_MAX_B_ADD == 100

HUE_MIN_CT_SET == 153

HUE_MAX_CT_SET == 500

HUE_MIN_CT_ADD == 0

HUE_MAX_CT_ADD == 347

\* hue_action_t
HUE_ACTION_NONE == 0

HUE_ACTION_SET == 1

HUE_ACTION_ADD == 2

HUE_ACTION_SUBTRACT == 3

\* widths of the bit-fields of hue_light_data_t
BRIGHTNESS_BITS == 7

COLOR_TEMP_BITS == 9

COLOR_GAMUT_BITS == 14

\* the value an unsigned bit-field of the given width holds after v is
\* assigned to it
BitField(v, width) == v % (2 ^ width)

hue_clamp_NoMaximum(value, minimum, maximum) ==
    IF value < minimum THEN minimum ELSE value

hue_clamp(value, minimum, maximum) ==
    IF value > maximum THEN maximum
    ELSE IF value < minimum THEN minimum
    ELSE value

\* printf %d of a value that is not negative
RECURSIVE FormatDec(_)
FormatDec(n) ==
    IF n < 10 THEN <<DigitSeq[n + 1]>>
    ELSE FormatDec(n \div 10) \o <<DigitSeq[(n % 10) + 1]>>

\* printf %04d of a value that is not negative
RECURSIVE ZeroPad(_, _)
ZeroPad(t, width) == IF Len(t) >= width THEN t ELSE ZeroPad(<<"0">> \o t, width)

\* x_buff and y_buff: "1.0" unless the value is below 10000
GamutStr(v) ==
    IF v < 10000
    THEN SubSeq(<<"0", ".">> \o ZeroPad(FormatDec(v), 4), 1, 6)
    ELSE <<"1", ".", "0">>

\* hue_json_sprintf_and_check: text is appended to the string in the buffer,
\* cut to the room that is left
hue_json_sprintf_and_check(buf, text) ==
    LET buff_pos == Len(buf.buff)
        chars_left == HUE_JSON_BUFFER_SIZE - buff_pos
        written == IF Len(text) < chars_left THEN text
                   ELSE SubSeq(text, 1, chars_left - 1)
    IN  [ret |-> IF Len(text) >= chars_left THEN "ESP_ERR_INVALID_SIZE" ELSE "ESP_OK",
         buff |-> buf.buff \o written]

\* one print of the builder after another: nothing more is printed once a
\* print has failed
Then(buf, text) ==
    IF buf.ret # "ESP_OK" THEN buf ELSE hue_json_sprintf_and_check(buf, text)

\* memset(json_buffer->buff, 0, HUE_JSON_BUFFER_SIZE)
ClearedBuffer == [ret |-> "ESP_OK", buff |-> <<>>]

DimmingText(d) ==
    IF d.brightness_action = HUE_ACTION_SET
    THEN FMT_DIMMING
             \o FormatDec(hue_clamp(d.brightness, HUE_MIN_B_SET, HUE_MAX_B_SET))
             \o FMT_CLOSE
    ELSE IF d.brightness_action = HUE_ACTION_ADD
    THEN FMT_DIMMING_UP
             \o FormatDec(hue_clamp(d.brightness, HUE_MIN_B_ADD, HUE_MAX_B_ADD))
             \o FMT_CLOSE
    ELSE IF d.brightness_action = HUE_ACTION_SUBTRACT
    THEN FMT_DIMMING_DOWN
             \o FormatDec(hue_clamp(d.brightness, HUE_MIN_B_ADD, HUE_MAX_B_ADD))
             \o FMT_CLOSE
    ELSE <<>>

ColorTempText(d) ==
    IF d.color_temp_action = HUE_ACTION_SET
    THEN FMT_COLOR_TEMP
             \o FormatDec(hue_clamp(d.color_temp, HUE_MIN_CT_SET, HUE_MAX_CT_SET))
             \o FMT_CLOSE
    ELSE IF d.color_temp_action = HUE_ACTION_ADD
    THEN FMT_COLOR_TEMP_UP
             \o FormatDec(hue_clamp(d.color_temp, HUE_MIN_CT_ADD, HUE_MAX_CT_ADD))
             \o FMT_CLOSE
    ELSE IF d.color_temp_action = HUE_ACTION_SUBTRACT
    THEN FMT_COLOR_TEMP_DOWN
             \o FormatDec(hue_clamp(d.color_temp, HUE_MIN_CT_ADD, HUE_MAX_CT_ADD))
             \o FMT_CLOSE
    ELSE <<>>

ColorText(d) ==
    FMT_COLOR_X \o GamutStr(d.color_gamut_x) \o <<",", "\"", "y", "\"", ":">>
        \o GamutStr(d.color_gamut_y) \o <<"}", "}">>

\* the prints of hue_light_data_to_json, in order. A switch that prints
\* nothing leaves ret as it was.
LightPrints(d) ==
    LET on == Then(ClearedBuffer, FMT_ON \o HUE_BOOL_STR(~d.off) \o FMT_CLOSE)
        dim == IF DimmingText(d) = <<>> THEN on ELSE Then(on, DimmingText(d))
        ct == IF ColorTempText(d) = <<>> THEN dim ELSE Then(dim, ColorTempText(d))
        col == IF d.set_color THEN Then(ct, ColorText(d)) ELSE ct
    IN  Then(col, FMT_CLOSE)

\* the print of hue_smart_scene_data_to_json
SmartScenePrints(d) ==
    Then(ClearedBuffer,
         FMT_RECALL
             \o (IF d.deactivate
                 THEN <<"\"", "d", "e", "a", "c", "t", "i", "v", "a", "t", "e", "\"">>
                 ELSE <<"\"", "a", "c", "t", "i", "v", "a", "t", "e", "\"">>)
             \o <<"}", "}">>)

\* the NULL checks of hue_light_data_to_json. buff is an array of the
\* structure: it is never NULL.
LightNullArgs(buf, d) ==
    \/ "json_buffer" \in buf.null
    \/ buf.resource_id = "NULL"
    \/ buf.resource_type = "NULL"
    \/ "hue_data" \in d.null
    \/ d.resource_id = "NULL"

\* the NULL checks of hue_smart_scene_data_to_json: resource_type is not
\* checked
SmartSceneNullArgs(buf, d) ==
    \/ "json_buffer" \in buf.null
    \/ buf.resource_id = "NULL"
    \/ "hue_data" \in d.null
    \/ d.resource_id = "NULL"

\* what a pointer of a structure that was declared without initialiser, or
\* with one, can hold
Pointers == {"NULL", "buffer", "garbage"}

\* strcpy through the two pointers of the buffer
StrcpyDefined(buf) == buf.resource_type = "buffer" /\ buf.resource_id = "buffer"

\* the builder returns ret with buff in the buffer. strcpy to a pointer that
\* points to no buffer is undefined: the call can also end in a crash.
JsonReturns(type, prints) ==
    /\ \/ /\ json_ret' = prints.ret
          /\ json_buffer' = [json_buffer EXCEPT !.buff = prints.buff,
                                                 !.type = type,
                                                 !.id = hue_data.resource_id]
       \/ /\ ~StrcpyDefined(json_buffer)
          /\ json_ret' = "CRASH"
          /\ UNCHANGED json_buffer

JsonFrame ==
    UNCHANGED <<handle_evt, current_request_handle, next_request_handle,
                request_handle_mutex, retry_attempts, pc, attempt_num, err,
                last_outcome, heap, next_id, request_body, in_transport,
                transport_log, current_log, burst, superseded, destroy_ret,
                p_hue_https_handle, transport_mode, last_submit,
                idle_since_promotion, create_vars,
                scene_vars, url_vars, request_vars, hue_data, assigned>>

hue_light_data_to_json ==
    /\ json_ret = "none"
    /\ hue_data.kind = "light"
    /\ IF LightNullArgs(json_buffer, hue_data)
       THEN json_ret' = "ESP_ERR_INVALID_ARG" /\ UNCHANGED json_buffer
       ELSE JsonReturns("light", LightPrints(hue_data))
    /\ JsonFrame

hue_smart_scene_data_to_json ==
    /\ json_ret = "none"
    /\ hue_data.kind = "smart_scene"
    /\ IF SmartSceneNullArgs(json_buffer, hue_data)
       THEN json_ret' = "ESP_ERR_INVALID_ARG" /\ UNCHANGED json_buffer
       ELSE JsonReturns("smart_scene", SmartScenePrints(hue_data))
    /\ JsonFrame

\* the data as the caller fills it: a structure with every field zero, and
\* the fields the caller assigns
ZeroData(kind) ==
    [kind |-> kind, null |-> {}, resource_id |-> "NULL", off |-> FALSE,
     brightness_action |-> HUE_ACTION_NONE, brightness |-> 0,
     color_temp_action |-> HUE_ACTION_NONE, color_temp |-> 0,
     set_color |-> FALSE, color_gamut_x |-> 0, color_gamut_y |-> 0,
     deactivate |-> FALSE]

\* the integers a caller assigns to brightness and color_temp
ZeroAssigned == [brightness |-> 0, color_temp |-> 0]

HueActions == {HUE_ACTION_NONE, HUE_ACTION_SET, HUE_ACTION_ADD, HUE_ACTION_SUBTRACT}

\* every value the brightness field can hold, and -1, with every action
BrightnessAssignments ==
    {[brightness |-> b, color_temp |-> 0] : b \in -1..(2 ^ BRIGHTNESS_BITS - 1)}

\* every value the color_temp field can hold, and -1, with every action
ColorTempAssignments ==
    {[brightness |-> 0, color_temp |-> c] : c \in -1..(2 ^ COLOR_TEMP_BITS - 1)}

\* both fields at once, at the ends of their ranges
CornerAssignments ==
    [brightness : {-1, 0, 1, 100, 101}, color_temp : {-1, 0, 152, 153, 347, 348, 500, 501}]

GamutSamples == {0, 123, 9999, 10000, 2 ^ COLOR_GAMUT_BITS - 1}

\* light data with the given assignments and a resource id
LightData(a, ba, cta) ==
    [ZeroData("light") EXCEPT !.resource_id = "buffer",
                              !.brightness_action = ba,
                              !.brightness = BitField(a.brightness, BRIGHTNESS_BITS),
                              !.color_temp_action = cta,
                              !.color_temp = BitField(a.color_temp, COLOR_TEMP_BITS)]

\* a buffer whose pointers point to storage
GoodBuffer ==
    [null |-> {}, resource_type |-> "buffer", resource_id |-> "buffer",
     buff |-> <<"?">>, type |-> "none", id |-> "none"]

\* buffers as callers declare them
Buffers ==
    {[GoodBuffer EXCEPT !.null = n, !.resource_type = t, !.resource_id = i] :
        n \in {{}, {"json_buffer"}}, t \in Pointers, i \in Pointers}

InitJson ==
    /\ NoInstance
    /\ p_hue_https_handle = "NULL"
    /\ config = [null |-> {}, bridge_ip |-> SAMPLE_BRIDGE_IP,
                 bridge_id |-> SAMPLE_BRIDGE_ID,
                 application_key |-> SAMPLE_APPLICATION_KEY,
                 retry_attempts |-> 0]
    /\ create_ret = "none"
    /\ resources = {}
    /\ unwound = {}
    /\ allocated = {}
    /\ check_kind = "none"
    /\ check_str = <<>>
    /\ check_ret = "none"
    /\ SceneIdle
    /\ UrlIdle
    /\ RequestIdle
    /\ json_ret = "none"
    /\ \/ \* every value of one field, the buffer and the resource id in place
          /\ json_buffer = GoodBuffer
          /\ \E ba \in HueActions, cta \in HueActions :
                /\ \/ assigned \in BrightnessAssignments /\ cta = HUE_ACTION_NONE
                   \/ assigned \in ColorTempAssignments /\ ba = HUE_ACTION_NONE
                   \/ assigned \in CornerAssignments
                /\ hue_data = LightData(assigned, ba, cta)
       \/ \* the other fields of light data
          /\ json_buffer = GoodBuffer
          /\ assigned = ZeroAssigned
          /\ \E off \in BOOLEAN, x \in GamutSamples, y \in GamutSamples :
                hue_data = [LightData(assigned, HUE_ACTION_SET, HUE_ACTION_ADD)
                               EXCEPT !.off = off, !.set_color = TRUE,
                                      !.color_gamut_x = x, !.color_gamut_y = y]
       \/ \* data with every field zero and data with a resource id, with
          \* every buffer
          /\ json_buffer \in Buffers
          /\ assigned = ZeroAssigned
          /\ \E kind \in {"light", "smart_scene"}, id \in {"NULL", "buffer"},
                n \in {{}, {"hue_data"}}, flag \in BOOLEAN :
                hue_data = [ZeroData(kind) EXCEPT !.resource_id = id, !.null = n,
                                                  !.off = flag, !.deactivate = flag]

NextJson ==
    \/ hue_light_data_to_json
    \/ hue_smart_scene_data_to_json

SpecJson == InitJson /\ [][NextJson]_vars

\* ------------------------------------------------------- the request URL

\* the literal parts of the URL
HTTPS_PREFIX ==
    <<"h", "t", "t", "p", "s", ":", "/", "/">>

HUE_RESOURCE_PATH ==
    <<"/", "c", "l", "i", "p", "/", "v", "2", "/", "r", "e", "s", "o", "u",
      "r", "c", "e", "/">>

\* the resource types the JSON builder writes
LIGHT_TYPE ==
    <<"l", "i", "g", "h", "t">>

GROUPED_LIGHT_TYPE ==
    <<"g", "r", "o", "u", "p", "e", "d", "_", "l", "i", "g", "h", "t">>

SMART_SCENE_TYPE ==
    <<"s", "m", "a", "r", "t", "_", "s", "c", "e", "n", "e">>

\* another resource id
OTHER_RESOURCE_ID ==
    <<"f", "f", "f", "f", "f", "f", "f", "f", "-", "0", "0", "0", "0", "-",
      "1", "1", "1", "1", "-", "2", "2", "2", "2", "-", "3", "3", "3", "3",
      "3", "3", "3", "3", "3", "3", "3", "3">>

HUE_RESOURCE_TYPE_SIZE == 14

HUE_RESOURCE_TYPE_MIN == 6

HUE_URL_BASE_MIN_LENGTH == 8 + 7 + HUE_RESOURCE_PATH_LENGTH

HUE_URL_BASE_MAX_LENGTH == 8 + 15 + HUE_RESOURCE_PATH_LENGTH

HUE_URL_BASE_SIZE == HUE_URL_BASE_MAX_LENGTH + 1

HUE_URL_RES_PATH_LENGTH == HUE_RESOURCE_TYPE_SIZE + HUE_RESOURCE_ID_LENGTH

HUE_URL_BUFFER_SIZE == HUE_URL_BASE_SIZE + HUE_URL_RES_PATH_LENGTH

\* calls of esp_http_client_init that are followed
MaxUrlCalls == 3

\* the terminating character of a C string
NUL == ""

\* memset(buf, 0, size)
Zeroed(size) == [i \in 1..size |-> NUL]

\* the C string that starts at the first cell of buf. A buffer without a NUL
\* is read past its end: what lies there is not known.
CStr(buf) ==
    LET nuls == {i \in DOMAIN buf : buf[i] = NUL}
    IN  IF nuls = {} THEN buf \o <<"?">>
        ELSE SubSeq(buf, 1, (CHOOSE i \in nuls : \A j \in nuls : i <= j) - 1)

\* snprintf(buf, size, "%s", text) at the start of buf: at most size - 1
\* characters and a NUL
SnprintfInto(buf, size, text) ==
    LET n == IF Len(text) < size THEN Len(text) ELSE size - 1
    IN  [i \in DOMAIN buf |-> IF i <= n THEN text[i]
                              ELSE IF i = n + 1 THEN NUL
                              ELSE buf[i]]

\* a copy that stops after the characters of src
strncpy_NoPadding(buf, pos, src, n) ==
    [i \in DOMAIN buf |->
        IF i > pos /\ i <= pos + n /\ i - pos <= Len(src) THEN src[i - pos]
        ELSE buf[i]]

\* strncpy(&buf[pos], src, n): the characters of src, at most n, and NULs
\* up to n cells in all
strncpy(buf, pos, src, n) ==
    [i \in DOMAIN buf |->
        IF i > pos /\ i <= pos + n
        THEN IF i - pos <= Len(src) THEN src[i - pos] ELSE NUL
        ELSE buf[i]]

\* buff_url after fill_bridge_url_base
UrlBaseBuffer(bridge_ip) ==
    SnprintfInto(Zeroed(HUE_URL_BUFFER_SIZE), HUE_URL_BASE_SIZE,
                 HTTPS_PREFIX \o bridge_ip \o HUE_RESOURCE_PATH)

\* hue_https_allocate_resource_path: "[resource type]/[resource id]", refused
\* unless its length is the length of a known type and of a resource id
hue_https_allocate_resource_path(type, id) ==
    LET str_len == Len(type) + 1 + Len(id)
    IN  IF str_len < HUE_RESOURCE_TYPE_MIN + HUE_RESOURCE_ID_LENGTH
           \/ str_len > HUE_RESOURCE_TYPE_SIZE + HUE_RESOURCE_ID_LENGTH
        THEN <<>>
        ELSE type \o <<"/">> \o id

\* hue_https_free_request: the body, the resource path and the instance are
\* freed and the handle is set to NULL
hue_https_free_request_KeepsHandle(r) ==
    [r EXCEPT !.heap = {}, !.instance = NoRequest]

hue_https_free_request(r) ==
    [r EXCEPT !.handle = "NULL", !.heap = {}, !.instance = NoRequest]

\* hue_https_allocate_request_body: the length of the JSON, then calloc
hue_https_allocate_request_body(fail, buff) ==
    IF Len(buff) = 0 \/ Len(buff) >= HUE_JSON_BUFFER_SIZE
    THEN "ESP_ERR_INVALID_SIZE"
    ELSE IF fail = "calloc_body" THEN "ESP_ERR_NO_MEM"
    ELSE "ESP_OK"

\* what hue_https_allocate_resource_path returns: the lengths, then calloc
AllocateResourcePathRet(fail, type, id) ==
    IF hue_https_allocate_resource_path(type, id) = <<>>
    THEN "ESP_ERR_INVALID_SIZE"
    ELSE IF fail = "calloc_path" THEN "ESP_ERR_NO_MEM"
    ELSE "ESP_OK"

\* a request handed out with its resource path still NULL
hue_https_allocate_request_NoPath(fail, buff, type, id) ==
    [ret |-> "ESP_OK", handle |-> "request",
     heap |-> {"instance", "request_body"},
     instance |-> [request_body |-> buff, resource_path |-> <<>>]]

\* hue_https_allocate_request: malloc of the instance into the caller's
\* handle, the body, the resource path; a failure after the malloc frees
\* the request
hue_https_allocate_request(fail, buff, type, id) ==
    LET made == [ret |-> "ESP_OK", handle |-> "request", heap |-> {"instance"},
                 instance |-> NoRequest]
        body == [made EXCEPT !.heap = {"instance", "request_body"},
                             !.instance.request_body = buff]
        path == [body EXCEPT !.heap = {"instance", "request_body", "resource_path"},
                             !.instance.resource_path =
                                 hue_https_allocate_resource_path(type, id)]
    IN  IF fail = "malloc"
        THEN [made EXCEPT !.ret = "ESP_ERR_NO_MEM", !.handle = "NULL", !.heap = {}]
        ELSE IF hue_https_allocate_request_body(fail, buff) # "ESP_OK"
        THEN hue_https_free_request(
                 [made EXCEPT !.ret = hue_https_allocate_request_body(fail, buff)])
        ELSE IF AllocateResourcePathRet(fail, type, id) # "ESP_OK"
        THEN hue_https_free_request(
                 [body EXCEPT !.ret = AllocateResourcePathRet(fail, type, id)])
        ELSE path

\* the requests that hue_https_allocate_request hands to its caller: the body
\* of light data left at zero or with a brightness, the path of every
\* resource type
CreatedRequests ==
    {r.instance :
        r \in {q \in {hue_https_allocate_request("none", LightPrints(d).buff, t, id) :
                        d \in {LightData(ZeroAssigned, HUE_ACTION_NONE, HUE_ACTION_NONE),
                               LightData([ZeroAssigned EXCEPT !.brightness = HUE_MAX_B_SET],
                                         HUE_ACTION_SET, HUE_ACTION_NONE)},
                        t \in {LIGHT_TYPE, GROUPED_LIGHT_TYPE, SMART_SCENE_TYPE},
                        id \in {SAMPLE_RESOURCE_ID, OTHER_RESOURCE_ID}} :
                   q.ret = "ESP_OK"}}

\* bridge addresses that hue_https_create_instance accepts
UrlBridgeIps ==
    {ip \in {SAMPLE_BRIDGE_IP, OCTET_999_BRIDGE_IP, SHORT_BRIDGE_IP} :
        fill_bridge_url_base(ip) = "ESP_OK"}

\* after hue_https_create_instance: the base in the buffer, the task in its
\* wait, no request in current
InitUrl ==
    /\ InstanceCreated({0}, "any", UrlBridgeIps)
    /\ SceneIdle
    /\ JsonIdle
    /\ RequestIdle
    /\ buff_url = UrlBaseBuffer(config.bridge_ip)
    /\ url_res_path_pos = Len(CStr(buff_url))
    /\ resource_path = <<>>
    /\ url_pc = "wait"
    /\ url_log = <<>>

UrlFrame ==
    UNCHANGED <<handle_evt, current_request_handle, next_request_handle,
                request_handle_mutex, retry_attempts, pc, attempt_num, err,
                last_outcome, heap, next_id, request_body, in_transport,
                transport_log, current_log, burst, superseded, destroy_ret,
                p_hue_https_handle, transport_mode, last_submit,
                idle_since_promotion, create_vars,
                scene_vars, json_vars, request_call, request_handle,
                request_heap, request_ret>>

\* a request becomes current and the task wakes
UrlRequestBecomesCurrent ==
    /\ url_pc = "wait"
    /\ Len(url_log) < MaxUrlCalls
    /\ request_instance' \in CreatedRequests
    /\ resource_path' = request_instance'.resource_path
    /\ url_pc' = "send_request"
    /\ UNCHANGED <<buff_url, url_res_path_pos, url_log>>
    /\ UrlFrame

\* hue_https_send_request up to its loop: the resource path of current is
\* copied behind the base
UrlSendRequest ==
    /\ url_pc = "send_request"
    /\ IF \/ resource_path = <<>>
          \/ request_instance.request_body = <<>>
          \/ url_res_path_pos > HUE_URL_BASE_MAX_LENGTH
          \/ url_res_path_pos < HUE_URL_BASE_MIN_LENGTH
       THEN /\ url_pc' = "wait"
            /\ UNCHANGED buff_url
       ELSE /\ url_pc' = "request_loop"
            /\ buff_url' = strncpy(buff_url, url_res_path_pos, resource_path,
                                   HUE_URL_BUFFER_SIZE - url_res_path_pos)
    /\ UNCHANGED <<url_res_path_pos, resource_path, url_log, request_instance>>
    /\ UrlFrame

\* hue_https_request_loop: esp_http_client_init reads client_config.url,
\* which points to buff_url; after the call the request leaves current
UrlRequestLoop ==
    /\ url_pc = "request_loop"
    /\ url_log' = Append(url_log, [path |-> resource_path, url |-> CStr(buff_url)])
    /\ resource_path' = <<>>
    /\ request_instance' = NoRequest
    /\ url_pc' = "wait"
    /\ UNCHANGED <<buff_url, url_res_path_pos>>
    /\ UrlFrame

NextUrl ==
    \/ UrlRequestBecomesCurrent
    \/ UrlSendRequest
    \/ UrlRequestLoop

SpecUrl == InitUrl /\ [][NextUrl]_vars

\* ------------------------------------------- the creation of a request
\* the NULL checks of hue_https_create_light_request, the handle already
\* created included, and the check of the resource id
RequestArgsInvalid(call, handle) ==
    \/ "p_request_handle" \in call.null
    \/ handle # "NULL"
    \/ "p_light_data" \in call.null
    \/ "resource_id" \in call.null
    \/ hue_check_resource_id(call.resource_id) # "ESP_OK"

\* the call returns ret, with the caller's handle and the heap as given
RequestReturns(r) ==
    /\ request_ret' = r.ret
    /\ request_handle' = r.handle
    /\ request_heap' = r.heap
    /\ request_instance' = r.instance

\* hue_https_create_light_request. json_buffer is declared without
\* initialiser: its two pointers hold what the stack held, and the strcpy of
\* hue_light_data_to_json through a pointer to no buffer may as well crash.
hue_https_create_light_request ==
    /\ request_ret = "none"
    /\ LET unchanged == [ret |-> "ESP_ERR_INVALID_ARG", handle |-> request_handle,
                         heap |-> request_heap, instance |-> request_instance]
           prints == LightPrints(request_call.light)
       IN  IF RequestArgsInvalid(request_call, request_handle)
           THEN RequestReturns(unchanged)
           ELSE IF LightNullArgs(request_call.json_buffer, request_call.light)
           THEN RequestReturns(unchanged)
           ELSE \/ /\ ~StrcpyDefined(request_call.json_buffer)
                   /\ RequestReturns([unchanged EXCEPT !.ret = "CRASH"])
                \/ IF prints.ret # "ESP_OK"
                   THEN RequestReturns([unchanged EXCEPT !.ret = prints.ret])
                   ELSE RequestReturns(
                            hue_https_allocate_request(request_call.fail, prints.buff,
                                                       LIGHT_TYPE,
                                                       request_call.resource_id))
    /\ UNCHANGED request_call
    /\ UNCHANGED <<handle_evt, current_request_handle, next_request_handle,
                   request_handle_mutex, retry_attempts, pc, attempt_num, err,
                   last_outcome, heap, next_id, request_body, in_transport,
                   transport_log, current_log, burst, superseded, destroy_ret,
                   p_hue_https_handle, transport_mode, last_submit,
                   idle_since_promotion, create_vars, scene_vars, json_vars,
                   url_vars>>

\* the allocations of a call that can fail
RequestFailures == {"none", "malloc", "calloc_body", "calloc_path"}

\* the calls: at most one NULL argument, a handle that is NULL or already
\* created, a resource id in the format or not, light data of every
\* brightness action, the pointers of the buffer as the stack left them
RequestCalls ==
    [null : {{}, {"p_request_handle"}, {"p_light_data"}, {"resource_id"}},
     handle : {"NULL", "previous"},
     resource_id : {SAMPLE_RESOURCE_ID, OTHER_RESOURCE_ID,
                    [SAMPLE_RESOURCE_ID EXCEPT ![9] = "x"]},
     light : {LightData([ZeroAssigned EXCEPT !.brightness = HUE_MAX_B_SET],
                        ba, HUE_ACTION_NONE) : ba \in HueActions},
     json_buffer : {b \in Buffers : b.null = {}},
     fail : RequestFailures]

InitRequest ==
    /\ InstanceCreated({0}, "any", {SAMPLE_BRIDGE_IP})
    /\ SceneIdle
    /\ JsonIdle
    /\ UrlIdle
    /\ request_call \in RequestCalls
    /\ request_handle = request_call.handle
    /\ request_instance = NoRequest
    /\ request_heap = {}
    /\ request_ret = "none"

NextRequest == hue_https_create_light_request

SpecRequest == InitRequest /\ [][NextRequest]_vars

\* ------------------------------------------------------------- history
LogIds == {transport_log[i].id : i \in DOMAIN transport_log}

Attempts(id) == Cardinality({i \in DOMAIN transport_log : transport_log[i].id = id})

EverCurrent == {current_log[i] : i \in DOMAIN current_log}

\* requests that left current through a promotion
Handled == EverCurrent \ {current_request_handle}

IsSet(b) == BitAnd(handle_evt, b) # 0

CallStarts == Len(transport_log') > Len(transport_log)

Promotion == pc = "promote_locked" /\ pc' = "wait"

\* --------------------------------------------------------------- claims

\* C1: of the submits that arrive while a request is being delivered, the
\* promotion makes the last one current, every transport call is made for
\* the request in current with that request's body, and a request that was
\* replaced in next by a later submit is never passed to the transport.
C1_CoalescingConvergence ==
    [][ /\ Promotion =>
              current_request_handle' =
                  (IF burst = <<>> THEN NULL ELSE burst[Len(burst)])
        /\ CallStarts =>
              LET e == transport_log'[Len(transport_log')] IN
              /\ e.id = current_request_handle
              /\ e.body = request_body[e.id]
        /\ \A i \in DOMAIN transport_log' :
              transport_log'[i].id \notin superseded' ]_vars

\* a burst of two submits during the delivery of request 1: request 2 was
\* replaced, request 3 was promoted and passed to the transport
C1_Witness ==
    /\ 2 \in superseded
    /\ \E i \in DOMAIN transport_log :
          transport_log[i].id = 3 /\ transport_log[i].body = request_body[3]
    /\ request_body[2] # request_body[3]

\* C2: a transport call starts only while the Connected bit is set.
C2_NoCallWhileDisconnected ==
    [][CallStarts => IsSet(HUE_HTTPS_EVT_WIFI_CONNECTED_BIT)]_vars

\* C3: against a transport that fails every call, a request is attempted at
\* most retry_attempts + 1 times, and a request that left current was
\* attempted exactly retry_attempts + 1 times and is not attempted again.
C3_RetryBound ==
    transport_mode = "fail" =>
        \A id \in EverCurrent :
            /\ Attempts(id) <= retry_attempts + 1
            /\ id \in Handled => Attempts(id) = retry_attempts + 1

\* C4: after a call that ended with a status other than 200 the task goes
\* straight to the promotion, without a delay and whatever attempts remain,
\* and no call is ever made for a request that has left current.
C4_ResponseErrorTerminal ==
    [][ /\ (pc = "perform" /\ last_outcome' = "HTTP_OTHER") =>
              /\ pc' = "promote"
              /\ attempt_num' = attempt_num
        /\ (last_outcome = "HTTP_OTHER" /\ ~Promotion) =>
              /\ pc' \in {"promote", "promote_locked"}
              /\ transport_log' = transport_log
        /\ CallStarts =>
              transport_log'[Len(transport_log')].id \notin Handled ]_vars

\* a first attempt answered with a non-200 status while a retry was left,
\* and the task about to promote
C4_Witness ==
    /\ retry_attempts >= 1
    /\ last_outcome = "HTTP_OTHER"
    /\ attempt_num = 0
    /\ pc = "promote_locked"

\* C5: no transport call starts while the Abort or the Exit bit is set.
C5_NoCallWhenAbortOrExit ==
    [][CallStarts =>
          /\ ~IsSet(HUE_HTTPS_EVT_ABORT_BIT)
          /\ ~IsSet(HUE_HTTPS_EVT_EXIT_BIT)]_vars

\* C6: a wait that returns with the Exit bit set ends the task, and the
\* ended task makes no transport call and no promotion and never runs again.
C6_TerminatedAbsorbing ==
    [][ /\ (pc = "wait" /\ pc' # pc /\ IsSet(HUE_HTTPS_EVT_EXIT_BIT)) =>
              pc' = "deleted"
        /\ pc = "deleted" =>
              /\ pc' = "deleted"
              /\ transport_log' = transport_log
              /\ in_transport' = in_transport
              /\ Handled' = Handled ]_vars

\* the task is gone while a request waits in current undelivered, with the
\* Connected and Trigger bits set
C6_Witness ==
    /\ pc = "deleted"
    /\ current_request_handle # NULL
    /\ current_request_handle \notin LogIds
    /\ IsSet(HUE_HTTPS_EVT_WIFI_CONNECTED_BIT)
    /\ IsSet(HUE_HTTPS_EVT_TRIGGER_BIT)

\* C7: once hue_https_destroy_instance has returned, it returned ESP_OK, the
\* caller's handle is NULL, Exit was raised, the task is gone and no request
\* of the instance is still allocated.
C7_DestroyTearsDown ==
    destroy_ret # "none" =>
        /\ destroy_ret = "ESP_OK"
        /\ p_hue_https_handle = "NULL"
        /\ IsSet(HUE_HTTPS_EVT_EXIT_BIT)
        /\ pc = "deleted"
        /\ heap = {}

\* C8: at most two requests are allocated, and every allocated request is in
\* current or in next.
C8_AtMostTwoResident ==
    /\ Cardinality(heap) <= 2
    /\ heap \subseteq {current_request_handle, next_request_handle}

\* C9: a promotion that ends a delivery (answered 200, answered another
\* status, or retries exhausted) frees the request it takes out of current.
C9_PromotionDestroysCurrent ==
    [][(Promotion /\ err \in {"ESP_OK", "ESP_ERR_INVALID_RESPONSE",
                               "ESP_ERR_NOT_FINISHED"}) =>
          current_request_handle \notin heap']_vars

\* C10: at most one transport call is in progress, and at most one request
\* that has not yet become current is waiting.
C10_OneInFlightOnePending ==
    /\ Cardinality(in_transport) <= 1
    /\ Cardinality(heap \ EverCurrent) <= 1
    /\ heap \ EverCurrent \subseteq {next_request_handle}

\* a call in progress while a request waits in next after a burst
C10_Witness ==
    /\ Cardinality(in_transport) = 1
    /\ next_request_handle # NULL
    /\ superseded # {}

\* hue_https_create_instance returns
CreateReturns == create_ret = "none" /\ create_ret' # "none"

\* a string of the config is missing or fails its check
StringsMissingOrInvalid(cfg) ==
    \/ cfg.null \cap {"p_hue_https_config", "bridge_ip", "bridge_id",
                      "application_key"} # {}
    \/ check_bridge_ip(cfg.bridge_ip) # "ESP_OK"
    \/ check_bridge_id(cfg.bridge_id) # "ESP_OK"
    \/ check_app_key(cfg.application_key) # "ESP_OK"

CreateErrors ==
    {"ESP_ERR_INVALID_ARG", "ESP_ERR_INVALID_RESPONSE", "ESP_ERR_INVALID_SIZE",
     "ESP_ERR_NO_MEM"}

\* C11: when the bridge IP, the bridge ID or the application key of the
\* config is NULL or fails its format check, hue_https_create_instance
\* returns an error code having allocated nothing (no instance memory, no
\* event group, no mutex, no task), and the caller's handle, NULL before the
\* call, is NULL after it.
C11_InvalidConfigAllocatesNothing ==
    [][(/\ CreateReturns
        /\ p_hue_https_handle = "NULL"
        /\ StringsMissingOrInvalid(config))
       => (/\ create_ret' \in CreateErrors
           /\ allocated' = {}
           /\ resources' = {}
           /\ pc' = "none"
           /\ p_hue_https_handle' = "NULL")]_vars

C11_Witness ==
    /\ create_ret = "ESP_ERR_INVALID_ARG"
    /\ config.null = {}
    /\ config.bridge_ip = SAMPLE_BRIDGE_IP
    /\ config.bridge_id = BAD_BRIDGE_ID
    /\ config.application_key = SAMPLE_APPLICATION_KEY
    /\ allocated = {}
    /\ p_hue_https_handle = "NULL"

\* C12: after hue_https_create_instance returned ESP_OK, current and next
\* are NULL, no bit of the event group is set, retry_attempts is the value
\* of the config, and the task is blocked in xEventGroupWaitBits with no
\* transport call made.
C12_CreatedInstanceIsIdle ==
    create_ret = "ESP_OK"
        => /\ p_hue_https_handle = "instance"
           /\ resources = InstanceResources
           /\ current_request_handle = NULL
           /\ next_request_handle = NULL
           /\ handle_evt = 0
           /\ retry_attempts = config.retry_attempts
           /\ pc = "wait"
           /\ BitAnd(handle_evt, HUE_HTTPS_EVT_WAIT_BITS) = 0
           /\ transport_log = <<>>
           /\ in_transport = {}

C12_Witness ==
    /\ create_ret = "ESP_OK"
    /\ config.retry_attempts = MaxRetry
    /\ retry_attempts = MaxRetry
    /\ pc = "wait"
    /\ p_hue_https_handle = "instance"

\* C15: hue_https_create_instance returns ESP_ERR_INVALID_SIZE when the
\* bridge IP, the bridge ID or the application key is not valid, and
\* ESP_ERR_INVALID_ARG when the handle pointer, the config pointer or a
\* string pointer of the config is NULL.
C15_InvalidStringIsInvalidSize ==
    [][CreateReturns /\ p_hue_https_handle = "NULL"
       => /\ config.null # {} => create_ret' = "ESP_ERR_INVALID_ARG"
          /\ (config.null = {} /\ ~ConfigStringsOk(config))
                => create_ret' = "ESP_ERR_INVALID_SIZE"]_vars

\* what the format of each kind of string is
WellFormed(kind, s) ==
    IF kind = "bridge_ip" THEN IsBridgeAddress(s)
    ELSE IF kind = "bridge_id" THEN IsBridgeIdentity(s)
    ELSE IF kind = "app_key" THEN IsCredential(s)
    ELSE IsResourceId(s)

\* C13: every string that satisfies its format is accepted by its check:
\* every dotted quad of at most 15 characters with octets 0..255, every
\* bridge id of 16 lowercase hex digits, every application key of 40
\* characters of [A-Za-z0-9_-], every 8-4-4-4-12 hex resource id.
C13_WellFormedAccepted ==
    (check_ret # "none" /\ WellFormed(check_kind, check_str))
        => check_ret = "ESP_OK"

\* C14: every string that deviates from its format is rejected by its
\* check: an octet above 255 or with a non-digit, a bridge id of another
\* length or with a character outside 0-9a-f, an application key of another
\* length or with a character outside [A-Za-z0-9_-], a resource id with a
\* misplaced dash or a non-hex character.
C14_MalformedRejected ==
    (check_ret # "none" /\ ~WellFormed(check_kind, check_str))
        => check_ret = "ESP_FAIL"

\* a submit creates the next request
SubmitStep == next_id' = next_id + 1

\* hue_https_send_request has taken the request up: it is past its NULL
\* checks with the request in current
Dequeued(id) ==
    \/ id \in LogIds
    \/ id \in Handled
    \/ /\ current_request_handle = id
       /\ pc \in {"loop", "request_loop", "perform", "delay", "promote",
                  "promote_locked"}

C17_SuccessAfterRetries ==
    [][ /\ (pc = "loop" /\ pc' # pc /\ attempt_num <= retry_attempts) =>
              pc' = "request_loop"
        /\ (pc = "perform" /\ pc' # pc /\ last_outcome' = "TRANSPORT_ERROR") =>
              attempt_num' = attempt_num + 1
        /\ (Promotion /\ err = "ESP_OK") =>
              /\ Attempts(current_request_handle) = attempt_num + 1
              /\ next_request_handle = NULL =>
                    /\ current_request_handle' = NULL
                    /\ handle_evt' = ClearBits(handle_evt, HUE_HTTPS_EVT_ABORT_BIT)
                    /\ current_log' = current_log ]_vars

\* the call after MaxRetry failed calls was answered 200 and nothing waits
\* in next at the promotion
C17_Witness ==
    /\ pc = "promote_locked"
    /\ err = "ESP_OK"
    /\ retry_attempts = MaxRetry
    /\ attempt_num = MaxRetry
    /\ Attempts(current_request_handle) = MaxRetry + 1
    /\ next_request_handle = NULL

\* where a request is in the order in which requests became current
CurrentPos(id) == CHOOSE k \in DOMAIN current_log : current_log[k] = id

\* C18: requests are passed to the transport in the order in which they
\* became current: a request becomes current once, every call is for a
\* request that became current and was not replaced in next, and a call is
\* never for a request that became current before the request of an earlier
\* call.
C18_DeliveryOrderIsCurrentOrder ==
    /\ \A i, j \in DOMAIN current_log :
          i # j => current_log[i] # current_log[j]
    /\ \A i \in DOMAIN transport_log :
          transport_log[i].id \in EverCurrent \ superseded
    /\ \A i, j \in DOMAIN transport_log :
          i < j => CurrentPos(transport_log[i].id) <= CurrentPos(transport_log[j].id)

\* request 1 then request 3 became current and were called in that order,
\* request 2 was replaced in next
C18_Witness ==
    /\ current_log = <<1, 3>>
    /\ 2 \in superseded
    /\ Len(transport_log) >= 2
    /\ transport_log[1].id = 1
    /\ transport_log[Len(transport_log)].id = 3

\* C19: every request that left current had a transport call of its own,
\* made with its own body, unless the HTTP client could not be created; a
\* request with the body of the request delivered before it is no exception.
C19_EqualBodiesCalledTwice ==
    [][Promotion =>
          \/ err = "ESP_ERR_INVALID_STATE"
          \/ /\ Attempts(current_request_handle) >= 1
             /\ LET e == transport_log[Len(transport_log)] IN
                /\ e.id = current_request_handle
                /\ e.body = request_body[current_request_handle] ]_vars

\* request 2 has the body of request 1, was submitted when request 1 had
\* left current, with the Connected bit set, and each of the two was
\* answered 200 on its own call
C19_Witness ==
    /\ next_id = 2
    /\ last_submit = "current"
    /\ 1 \in Handled
    /\ request_body[1] = request_body[2]
    /\ IsSet(HUE_HTTPS_EVT_WIFI_CONNECTED_BIT)
    /\ Attempts(1) = 1
    /\ Attempts(2) = 1
    /\ current_request_handle = 2
    /\ pc = "promote_locked"
    /\ err = "ESP_OK"

\* C20: when xEventGroupWaitBits returns with the Trigger bit set, the bit
\* is cleared, and it stays clear until a submit or a promotion sets it.
C20_TriggerConsumedOnWake ==
    [][ /\ (pc = "wait" /\ pc' = "send_request"
               /\ IsSet(HUE_HTTPS_EVT_TRIGGER_BIT)) =>
              BitAnd(handle_evt', HUE_HTTPS_EVT_TRIGGER_BIT) = 0
        /\ (~IsSet(HUE_HTTPS_EVT_TRIGGER_BIT)
               /\ BitAnd(handle_evt', HUE_HTTPS_EVT_TRIGGER_BIT) # 0) =>
              (SubmitStep \/ Promotion) ]_vars

\* C24: a submit that finds current occupied leaves current and the event
\* group as they are and writes only next: the new request is stored there
\* and the request that next held, if any, is freed.
C24_SubmitWhileBusyWritesNext ==
    [][(SubmitStep /\ current_request_handle # NULL) =>
          /\ current_request_handle' = current_request_handle
          /\ handle_evt' = handle_evt
          /\ next_request_handle' = next_id'
          /\ heap' = (heap \ {next_request_handle}) \cup {next_id'}
          /\ next_request_handle # NULL => next_request_handle \notin heap'
          /\ current_log' = current_log]_vars

\* a submit replaced the request waiting in next while a call for current
\* was in progress
C24_Witness ==
    /\ last_submit = "next"
    /\ next_request_handle = next_id
    /\ superseded # {}
    /\ current_request_handle # NULL
    /\ pc = "perform"

\* C25: after the promotion next is NULL and current is what next was, and
\* the promotion sets the trigger bit exactly when the new current is not
\* NULL; of the other bits it only clears the abort bit.
C25_PromotionMovesNext ==
    [][Promotion =>
          /\ next_request_handle' = NULL
          /\ current_request_handle' = next_request_handle
          /\ handle_evt' = ClearBits(
                 IF next_request_handle # NULL
                 THEN SetBits(handle_evt, HUE_HTTPS_EVT_TRIGGER_BIT)
                 ELSE handle_evt, HUE_HTTPS_EVT_ABORT_BIT)]_vars

\* a promotion moved a request from next into current, and another one
\* found next NULL and left current NULL
C25_Witness ==
    /\ Len(current_log) >= 2
    /\ last_submit = "next"
    /\ current_request_handle = NULL
    /\ next_request_handle = NULL
    /\ Handled = {1, 2}
    /\ pc = "wait"

\* C26: the task delays only between attempts: after a failed call it
\* delays when attempts remain, and goes to the promotion without a delay
\* when that was the last attempt.
C26_BackoffOnlyBetweenAttempts ==
    [][(pc = "perform" /\ pc' # pc /\ last_outcome' = "TRANSPORT_ERROR") =>
          IF attempt_num' <= retry_attempts
          THEN pc' = "delay"
          ELSE pc' = "promote"]_vars

\* C28: the task holds request_handle_mutex during the promotion only: not
\* while a call is in progress or during the delay; it changes current and
\* next only while it holds the mutex, and gives the mutex with the
\* promotion.
C28_MutexHeldForPromotionOnly ==
    [][ /\ request_handle_mutex = "task" =>
              /\ pc = "promote_locked"
              /\ in_transport = {}
        /\ pc \in {"request_loop", "perform", "delay"} =>
              request_handle_mutex = "free"
        /\ (~SubmitStep /\ <<current_request_handle, next_request_handle>>' #
                           <<current_request_handle, next_request_handle>>) =>
              request_handle_mutex = "task"
        /\ Promotion => request_handle_mutex' = "free" ]_vars

\* the mutex is free while a call is in progress with a request waiting in
\* next, which a submit stored during the call
C28_Witness ==
    /\ pc = "perform"
    /\ in_transport # {}
    /\ request_handle_mutex = "free"
    /\ next_request_handle # NULL
    /\ Cardinality(Handled) >= 1

\* C29: under fair scheduling, with the Connected bit staying set, the Exit
\* bit never set and every esp_http_client_perform returning, a request in
\* current is eventually passed to the transport and eventually leaves
\* current in a promotion, and a wait with the Trigger bit set eventually
\* returns.
C29_CurrentEventuallyDelivered ==
    /\ \A id \in Ids :
          (current_request_handle = id /\ IsSet(HUE_HTTPS_EVT_WIFI_CONNECTED_BIT))
              ~> (id \in LogIds /\ id \in Handled)
    /\ (pc = "wait" /\ IsSet(HUE_HTTPS_EVT_TRIGGER_BIT)) ~> (pc = "send_request")

\* C30: for every retry_attempts of 0..255 and a transport whose every call
\* returns, the retry loop of a request ends: the task reaches the
\* promotion.
C30_AttemptLoopTerminates ==
    (pc = "loop") ~> (pc = "promote")

\* whether a caller passes its request to esp_http_client_perform in this step
SceneAttemptStarts ==
    \E c \in Callers : caller_pc[c] # "perform" /\ caller_pc'[c] = "perform"

\* C21: a call of hue_smart_scene_https_request that finds the Lock bit set
\* returns ESP_ERR_INVALID_STATE with the Abort bit raised, and once the
\* Abort bit is raised no caller starts another transport attempt.
C21_SecondCallAbortsFirst ==
    [][/\ \A c \in Callers :
            (caller_pc[c] = "set_abort" /\ caller_pc'[c] = "idle")
                => /\ caller_err'[c] = "ESP_ERR_INVALID_STATE"
                   /\ "ABORT" \in event_group_handle'
       /\ "ABORT" \in event_group_handle => ~SceneAttemptStarts]_vars

\* the bodies the tests "Empty light data" and "Empty smart scene data" expect
DEFAULT_LIGHT_BODY ==
    <<"{", "\"", "o", "n", "\"", ":", "{", "\"", "o", "n", "\"", ":", "t",
      "r", "u", "e", "}", "}">>

DEFAULT_SMART_SCENE_BODY ==
    <<"{", "\"", "r", "e", "c", "a", "l", "l", "\"", ":", "{", "\"", "a",
      "c", "t", "i", "o", "n", "\"", ":", "\"", "a", "c", "t", "i", "v", "a",
      "t", "e", "\"", "}", "}">>

\* the builder was called with a buffer and with data whose every field is
\* zero
ZeroDataConverted ==
    /\ json_ret # "none"
    /\ json_buffer.null = {}
    /\ StrcpyDefined(json_buffer)
    /\ hue_data = ZeroData(hue_data.kind)

\* C22: for data whose every field is zero, the resource id included, the
\* builder returns ESP_OK and writes the default body: on = true for a light,
\* the recall action activate for a smart scene.
C22_ZeroDataDefaultBody ==
    ZeroDataConverted
        => /\ json_ret = "ESP_OK"
           /\ json_buffer.buff = IF hue_data.kind = "light"
                                 THEN DEFAULT_LIGHT_BODY
                                 ELSE DEFAULT_SMART_SCENE_BODY

\* the tags that precede the numbers of the body
KEY_BRIGHTNESS ==
    <<"\"", "b", "r", "i", "g", "h", "t", "n", "e", "s", "s", "\"", ":">>

KEY_BRIGHTNESS_DELTA ==
    <<"\"", "b", "r", "i", "g", "h", "t", "n", "e", "s", "s", "_", "d", "e",
      "l", "t", "a", "\"", ":">>

KEY_MIREK ==
    <<"\"", "m", "i", "r", "e", "k", "\"", ":">>

KEY_MIREK_DELTA ==
    <<"\"", "m", "i", "r", "e", "k", "_", "d", "e", "l", "t", "a", "\"", ":">>

\* where key starts in body, 0 when it is not in it
KeyPos(body, key) ==
    LET at == {i \in 1..(Len(body) - Len(key) + 1) :
                  SubSeq(body, i, i + Len(key) - 1) = key}
    IN  IF at = {} THEN 0 ELSE CHOOSE i \in at : \A j \in at : i <= j

\* the number written after key, -1 when there is none
NumberAfter(body, key) ==
    LET p == KeyPos(body, key)
        from == p + Len(key)
        n == Run(body, from, Len(body), DecDigits)
    IN  IF p = 0 \/ n = 0 THEN -1 ELSE DecValue(SubSeq(body, from, from + n - 1))

\* the number of the body lies in lo..hi, is the value of the field when
\* that lies in lo..hi, and is hi when -1 was assigned to the field
WrittenClamped(key, value, given, width, lo, hi) ==
    LET n == NumberAfter(json_buffer.buff, key)
    IN  /\ n \in lo..hi
        /\ value \in lo..hi => n = value
        /\ given = -1 => value = 2 ^ width - 1 /\ n = hi

UrlBase == HTTPS_PREFIX \o config.bridge_ip \o HUE_RESOURCE_PATH

\* C27: the URL handed to the transport is the base URL followed by the
\* resource path of current; the base at the start of the buffer is never
\* modified; nothing of an earlier, longer path is left behind the path.
C27_UrlIsBasePlusPath ==
    /\ \A i \in DOMAIN url_log : url_log[i].url = UrlBase \o url_log[i].path
    /\ SubSeq(buff_url, 1, Len(UrlBase)) = UrlBase
    /\ url_pc = "request_loop"
          => \A i \in DOMAIN buff_url :
                i > Len(UrlBase) + Len(resource_path) => buff_url[i] = NUL

\* a URL was handed to the transport right after one with a longer path
C27_Witness ==
    \E i \in DOMAIN url_log :
        /\ i + 1 \in DOMAIN url_log
        /\ Len(url_log[i].path) > Len(url_log[i + 1].path)
        /\ url_log[i + 1].url = UrlBase \o url_log[i + 1].path

\* C31: after a promotion that leaves current empty the task stays blocked
\* in its wait until another context raises or changes a flag: a bit that
\* merely stays set does not make the wait return with nothing to deliver.
C31_IdleWaitBlocks ==
    [][(idle_since_promotion /\ pc = "wait") => pc' \in {"wait", "deleted"}]_vars

\* C32: when hue_https_create_instance fails after the instance was
\* allocated because the event group, the mutex or the task could not be
\* created, the unwind deletes exactly the handles made so far, none that
\* was not yet made or assigned; nothing stays allocated and the caller's
\* handle is NULL.
C32_UnwindDeletesWhatWasMade ==
    (create_ret = "ESP_ERR_NO_MEM" /\ "instance" \in allocated)
        => /\ unwound = allocated \ {"instance"}
           /\ resources = {}
           /\ p_hue_https_handle = "NULL"

\* C33: on every error return of hue_https_create_light_request the
\* caller's request handle has the value it had on entry, nothing the call
\* allocated is still allocated, and no request is in a slot of the
\* instance.
C33_ErrorLeavesNothing ==
    request_ret \notin {"none", "ESP_OK", "CRASH"}
        => /\ request_handle = request_call.handle
           /\ request_heap = {}
           /\ request_instance = NoRequest
           /\ current_request_handle = NULL
           /\ next_request_handle = NULL

\* the resource path could not be allocated after the instance and the body
\* had been
C33_Witness ==
    /\ request_ret = "ESP_ERR_NO_MEM"
    /\ request_call.fail = "calloc_path"
    /\ request_call.handle = "NULL"

\* C34: the request in current is neither replaced nor freed by anything
\* but the task's own promotion: a submit frees only a request that waited
\* in next, so the request the task is delivering stays allocated, with its
\* body, until the delivery has ended.
C34_CurrentOnlyPromotedAway ==
    [][(current_request_handle # NULL /\ ~Promotion)
           => /\ current_request_handle' = current_request_handle
              /\ current_request_handle \in heap'
              /\ request_body'[current_request_handle]
                     = request_body[current_request_handle]]_vars

\* a submit has freed a request that waited in next while the transport
\* call for the request in current is in progress
C34_Witness ==
    /\ pc = "perform"
    /\ in_transport # {}
    /\ superseded # {}
    /\ current_request_handle \in heap

\* C35: right after every promotion the Abort bit is clear, whether the
\* delivery ended with 200, with another status or with its attempts used
\* up: an Abort raised before the promotion is not seen by the first
\* attempt of the promoted request.
C35_PromotionClearsAbort ==
    [][Promotion => BitAnd(handle_evt', HUE_HTTPS_EVT_ABORT_BIT) = 0]_vars

\* Abort was raised around a delivery that ended with a status other than
\* 200 and the task is about to promote the request that waited in next
C35_Witness ==
    /\ pc = "promote_locked"
    /\ IsSet(HUE_HTTPS_EVT_ABORT_BIT)
    /\ last_outcome = "HTTP_OTHER"
    /\ next_request_handle # NULL

\* C36: once Exit is raised, and with every transport call returning, the
\* fairly scheduled task reaches Terminated, whatever the slots and the
\* other bits hold when Exit is raised.
C36_ExitLeadsToTerminated ==
    IsSet(HUE_HTTPS_EVT_EXIT_BIT) ~> (pc = "deleted")

\* C37: of the tasks that call hue_smart_scene_https_request at most one
\* is between setting the Lock bit and clearing it, so the JSON buffer and
\* the URL buffer are used by one request at a time; and a call that set
\* the Lock bit has cleared it when it has returned.
C37_OneCallerHoldsLock ==
    /\ Cardinality({c \in Callers :
                       caller_pc[c] \in {"wait_bits", "request", "perform",
                                         "delay", "clear_lock"}}) <= 1
    /\ (\A c \in Callers : caller_pc[c] \in {"idle", "set_abort", "set_lock"})
           => "LOCK" \notin event_group_handle

====
